---- MODULE Spec2Model ----
(***************************************************************************)
(* A model of benchplot's internal/plot package: the aesthetic map, the    *)
(* value model, projections, Plot construction (NewPlot), Plot.Add and the *)
(* transforms transformSummarize and transformCompare.                     *)
(*                                                                         *)
(* Floats are modelled as exact rationals <<n, d>> (d > 0, reduced).       *)
(* benchproc.Key is modelled as the tuple of the projection's field values.*)
(***************************************************************************)
EXTENDS Integers, Sequences, FiniteSets, TLC

VARIABLES config, plot, points, err, fault, pc, last, prev, heap, main

vars == <<config, plot, points, err, fault, pc, last, prev, heap, main>>

(***************************************************************************)
(* Bounds of the model.                                                    *)
(***************************************************************************)
\* most points the collection may hold after an Add, under Spec
MaxPoints == 3
\* most SetIV/SetDV calls made on a Config before NewPlot
MaxSets == 2
\* most points the collection may hold after an Add, under SpecT
MaxPointsT == 4
\* most transforms applied after the last Add
MaxTransforms == 2

(***************************************************************************)
(* Aesthetics (scale.go).                                                  *)
(***************************************************************************)
AesX == 0
AesY == 1
AesColor == 2
AesRow == 3
AesCol == 4
aesMax == 5
aesNone == -1

Aes == 0 .. (aesMax - 1)

(***************************************************************************)
(* Value kinds: a bit set held in a uint8.                                 *)
(***************************************************************************)
kindDiscrete == 1
kindContinuous == 2
kindSummary == 4
kindRatio == 8
kindMax == 16
kindAll == kindMax - 1

Pow2(i) == IF i = 0 THEN 1 ELSE IF i = 1 THEN 2 ELSE IF i = 2 THEN 4 ELSE 8

Bit(k, i) == (k \div Pow2(i)) % 2

\* a & b on valueKinds
BitAnd(a, b) ==
    Bit(a, 0) * Bit(b, 0) + 2 * Bit(a, 1) * Bit(b, 1)
      + 4 * Bit(a, 2) * Bit(b, 2) + 8 * Bit(a, 3) * Bit(b, 3)

\* a | b on valueKinds
BitOr(a, b) == a + b - BitAnd(a, b)

(***************************************************************************)
(* float64, as exact rationals.                                            *)
(***************************************************************************)
RECURSIVE GCD(_, _)
GCD(a, b) == IF b = 0 THEN a ELSE GCD(b, a % b)

Abs(x) == IF x < 0 THEN -x ELSE x

\* the rational n/d in lowest terms; d = 0 stands for +Inf (n > 0) or NaN (n = 0)
Rat(n, d) ==
    IF d = 0 THEN <<(IF n > 0 THEN 1 ELSE 0), 0>>
    ELSE LET g == GCD(Abs(n), Abs(d))
             s == IF d < 0 THEN -1 ELSE 1
         IN  <<(s * n) \div g, (s * d) \div g>>

FloatOf(i) == <<i, 1>>

FloatZero == <<0, 1>>

FloatLess(a, b) == a[1] * b[2] < b[1] * a[2]

FloatDiv(a, b) == Rat(a[1] * b[2], a[2] * b[1])

FloatAdd(a, b) == Rat(a[1] * b[2] + b[1] * a[2], a[2] * b[2])

FloatMul(a, b) == Rat(a[1] * b[1], a[2] * b[2])

\* cmp.Compare on float64
CmpCompare(a, b) == IF FloatLess(a, b) THEN -1 ELSE IF FloatLess(b, a) THEN 1 ELSE 0

(***************************************************************************)
(* Records of the input (benchfmt.Result) and the values they are drawn    *)
(* from.                                                                   *)
(***************************************************************************)
Units == {"ns", "by"}

FieldVals == {"A", "2"}

\* the metrics a record may hold for a unit
MetricVals == {1, 2}

\* no metric under that unit name
Absent == 0

UnitLists == {<<"ns">>, <<"ns", "by">>}

Range(s) == {s[i] : i \in 1 .. Len(s)}

\* A record: the value of its field f, the unit names ProjectValues offers
\* (one per candidate), and the metric ValueForUnit finds for each unit
\* (Absent: not found).
Records ==
    {r \in [f : FieldVals, units : UnitLists, metric : [Units -> MetricVals \cup {Absent}]] :
        \A u \in Units : u \notin Range(r.units) => r.metric[u] = Absent}

\* rec.Value(unit)
RecValue(rec, unit) ==
    [ok |-> rec.metric[unit] # Absent, val |-> FloatOf(rec.metric[unit])]

\* strconv.ParseFloat on the strings the model uses
ParseFloat(s) ==
    IF s = "2" THEN [ok |-> TRUE, val |-> FloatOf(2)]
    ELSE IF s = "10" THEN [ok |-> TRUE, val |-> FloatOf(10)]
    ELSE [ok |-> FALSE, val |-> FloatZero]

(***************************************************************************)
(* Projections (Config.SetIV, Config.SetDV) and values.                    *)
(***************************************************************************)
NoField == ""

UnitFieldName == ".unit"

\* the independent-variable projections a Config may be given: their fields
IVs == {<<".unit">>, <<"f">>}

\* the zero projection
ZeroProjection ==
    [hasIV |-> FALSE, iv |-> <<>>, ivField |-> NoField, unitField |-> NoField, dv |-> FALSE]

NilKey == <<>>

NoSummary == [ptr |-> <<0, 0>>, center |-> FloatZero, lo |-> FloatZero, hi |-> FloatZero]

\* the zero value
ZeroValue ==
    [kinds |-> 0, key |-> NilKey, val |-> FloatZero, summary |-> NoSummary, denom |-> NilKey]

\* the zero point
ZeroPoint == [a \in Aes |-> ZeroValue]

\* Config.SetIV's projection for iv
IVProjection(iv) ==
    [hasIV |-> TRUE,
     iv |-> iv,
     ivField |-> IF Len(iv) = 1 THEN iv[1] ELSE NoField,
     unitField |-> IF \E i \in 1 .. Len(iv) : iv[i] = UnitFieldName
                   THEN UnitFieldName ELSE NoField,
     dv |-> FALSE]

\* Config.SetDV's projection
DVProjection == [ZeroProjection EXCEPT !.dv = TRUE]

\* the position of field in the projection's fields
FieldIndex(iv, field) == CHOOSE i \in 1 .. Len(iv) : iv[i] = field

\* Key.Get(field), for a key of projection iv
KeyGet(key, iv, field) == key[FieldIndex(iv, field)]

\* the value a record holds for a field other than .unit
FieldValue(rec, field) == IF field = "f" THEN rec.f ELSE ""

\* Projection.Project(r)
Project(iv, rec) == [i \in 1 .. Len(iv) |-> FieldValue(rec, iv[i])]

\* Projection.ProjectValues(r): one key per unit candidate
ProjectValues(iv, rec) ==
    [j \in 1 .. Len(rec.units) |->
        [i \in 1 .. Len(iv) |->
            IF iv[i] = UnitFieldName THEN rec.units[j] ELSE FieldValue(rec, iv[i])]]

\* the "try to parse continuous values" loop of project
parseContinuous(p, v) ==
    IF p.ivField = NoField THEN v
    ELSE LET r == ParseFloat(KeyGet(v.key, p.iv, p.ivField))
         IN  IF r.ok
             THEN [v EXCEPT !.kinds = BitOr(v.kinds, kindContinuous), !.val = r.val]
             ELSE v

project_emptyKind(p, rec) ==
    IF ~p.hasIV THEN <<ZeroValue>>
    ELSE LET keys == IF p.unitField # NoField THEN ProjectValues(p.iv, rec)
                     ELSE <<Project(p.iv, rec)>>
         IN  [i \in 1 .. Len(keys) |->
                 parseContinuous(p, [ZeroValue EXCEPT !.kinds = kindDiscrete, !.key = keys[i]])]

\* projection.project, for a projection that is not the dependent variable
project(p, rec) ==
    IF ~p.hasIV THEN <<[ZeroValue EXCEPT !.kinds = kindDiscrete]>>
    ELSE LET keys == IF p.unitField # NoField THEN ProjectValues(p.iv, rec)
                     ELSE <<Project(p.iv, rec)>>
         IN  [i \in 1 .. Len(keys) |->
                 parseContinuous(p, [ZeroValue EXCEPT !.kinds = kindDiscrete, !.key = keys[i]])]

(***************************************************************************)
(* NewPlot.                                                                *)
(***************************************************************************)
NoPlot == [aes |-> [a \in Aes |-> ZeroProjection], unitAes |-> aesNone, dvAes |-> aesNone]

\* the loop of NewPlot from aesthetic a on: the error, or the unit and
\* dependent-variable aesthetics found
RECURSIVE findUnitDV(_, _, _, _)
findUnitDV(c, a, unitAes, dvAes) ==
    IF a = aesMax THEN [err |-> "", unitAes |-> unitAes, dvAes |-> dvAes]
    ELSE IF c[a].unitField # NoField /\ unitAes # aesNone
         THEN [err |-> "at most one dimension may show .unit",
               unitAes |-> unitAes, dvAes |-> dvAes]
    ELSE LET u == IF c[a].unitField # NoField THEN a ELSE unitAes
         IN  IF c[a].dv /\ dvAes # aesNone
             THEN [err |-> "at most one dimension may show .value",
                   unitAes |-> u, dvAes |-> dvAes]
             ELSE findUnitDV(c, a + 1, u, IF c[a].dv THEN a ELSE dvAes)

NewPlotOf_noValueCheck(c) ==
    LET r == findUnitDV(c, 0, aesNone, aesNone)
    IN  IF r.err # "" THEN [err |-> r.err, plot |-> NoPlot]
        ELSE IF r.unitAes # aesNone /\ r.dvAes = aesNone
             THEN [err |-> ".unit is mapped, but no dimension shows .value", plot |-> NoPlot]
        ELSE [err |-> "", plot |-> [aes |-> c, unitAes |-> r.unitAes, dvAes |-> r.dvAes]]

\* NewPlot(c): the error (empty: none) and the Plot
NewPlotOf(c) ==
    LET r == findUnitDV(c, 0, aesNone, aesNone)
    IN  IF r.err # "" THEN [err |-> r.err, plot |-> NoPlot]
        ELSE IF r.unitAes # aesNone /\ r.dvAes = aesNone
             THEN [err |-> ".unit is mapped, but no dimension shows .value", plot |-> NoPlot]
        ELSE IF r.unitAes = aesNone /\ r.dvAes # aesNone
             THEN [err |-> ".value is mapped, but no dimension shows .unit", plot |-> NoPlot]
        ELSE [err |-> "", plot |-> [aes |-> c, unitAes |-> r.unitAes, dvAes |-> r.dvAes]]

(***************************************************************************)
(* Plot.Add.                                                               *)
(***************************************************************************)
unitMetric_noDrop(proj, rec, val) ==
    IF proj.unitField # NoField
    THEN [ok |-> TRUE, val |-> RecValue(rec, KeyGet(val.key, proj.iv, proj.unitField)).val]
    ELSE [ok |-> TRUE, val |-> FloatZero]

\* the metric the record holds under the unit name of val, for the projection
\* bound to the unit; ok is false when the candidate is to be dropped
unitMetric(proj, rec, val) ==
    IF proj.unitField # NoField
    THEN RecValue(rec, KeyGet(val.key, proj.iv, proj.unitField))
    ELSE [ok |-> TRUE, val |-> FloatZero]

setDV_onlyLater(p, aes, pt, m) ==
    IF p.aes[aes].unitField # NoField /\ p.dvAes > aes
    THEN [pt EXCEPT ![p.dvAes] = [ZeroValue EXCEPT !.kinds = kindContinuous, !.val = m.val]]
    ELSE pt

\* pt.aesMap.Set(p.dvAes, value{kinds: kindContinuous, val: val}) when the
\* projection of aes is bound to the unit
setDV(p, aes, pt, m) ==
    IF p.aes[aes].unitField # NoField
    THEN [pt EXCEPT ![p.dvAes] = [ZeroValue EXCEPT !.kinds = kindContinuous, !.val = m.val]]
    ELSE pt

\* fill(aes) and its loop over vals, with the in-progress point pt that all
\* iterations share: the points appended, and pt as the call leaves it
RECURSIVE fill(_, _, _, _), fillVals(_, _, _, _, _, _)
fill(p, rec, aes, pt) ==
    IF aes = aesMax THEN [out |-> <<pt>>, pt |-> pt]
    ELSE IF p.aes[aes].dv THEN fill(p, rec, aes + 1, pt)
    ELSE fillVals(p, rec, aes, project(p.aes[aes], rec), 1, pt)

fillVals(p, rec, aes, vals, i, pt) ==
    IF i > Len(vals) THEN [out |-> <<>>, pt |-> pt]
    ELSE LET val == vals[i]
             m == unitMetric(p.aes[aes], rec, val)
         IN  IF ~m.ok THEN fillVals(p, rec, aes, vals, i + 1, pt)
             ELSE LET pt2 == [setDV(p, aes, pt, m) EXCEPT ![aes] = val]
                      r == fill(p, rec, aes + 1, pt2)
                      rest == fillVals(p, rec, aes, vals, i + 1, r.pt)
                  IN  [out |-> r.out \o rest.out, pt |-> rest.pt]

\* the points one Add(rec) appends
AddOf(p, rec) == fill(p, rec, 0, ZeroPoint).out

(***************************************************************************)
(* value.compare and compareKeys.                                          *)
(***************************************************************************)
\* the strings of the model in the order Key.Less puts them
StringRank(str) ==
    CASE str = "" -> 0
      [] str = "10" -> 1
      [] str = "2" -> 2
      [] str = "A" -> 3
      [] str = "by" -> 4
      [] str = "ns" -> 5
      [] OTHER -> 6

\* Key.Less: field by field
RECURSIVE KeyLessFrom(_, _, _)
KeyLessFrom(a, b, i) ==
    IF i > Len(a) \/ i > Len(b) THEN Len(a) < Len(b)
    ELSE IF a[i] # b[i] THEN StringRank(a[i]) < StringRank(b[i])
    ELSE KeyLessFrom(a, b, i + 1)

KeyLess(a, b) == KeyLessFrom(a, b, 1)

compareKeys_noEqual(a, b) == IF KeyLess(a, b) THEN -1 ELSE 1

compareKeys(a, b) == IF a = b THEN 0 ELSE IF KeyLess(a, b) THEN -1 ELSE 1

\* the "put them in kind order" loop of compare from kind on: -1, 1, or
\* 2 when the loop ends without an answer (the panic)
RECURSIVE kindOrder(_, _, _)
kindOrder(k1, k2, kind) ==
    IF kind = kindMax THEN 2
    ELSE IF BitAnd(k1, kind) # 0 /\ BitAnd(k2, kind) = 0 THEN -1
    ELSE IF BitAnd(k1, kind) = 0 /\ BitAnd(k2, kind) # 0 THEN 1
    ELSE kindOrder(k1, k2, kind + 1)

Incomparable == 2

\* v.compare(v2): -1, 0, 1, or Incomparable for the panic
compare(v, v2) ==
    IF BitAnd(BitAnd(v.kinds, v2.kinds), kindDiscrete) # 0
    THEN LET c == compareKeys(v.key, v2.key)
         IN  IF c # 0 THEN c
             ELSE IF BitAnd(v.kinds, kindRatio) # 0 THEN compareKeys(v.denom, v2.denom)
             ELSE 0
    ELSE IF BitAnd(BitAnd(v.kinds, v2.kinds), kindContinuous) # 0
    THEN CmpCompare(v.val, v2.val)
    ELSE kindOrder(v.kinds, v2.kinds, 0)

(***************************************************************************)
(* groupBy, pointsKinds, pointsToSample and the statistics provider.       *)
(***************************************************************************)
\* a map's value for a key, the zero value (a nil slice) when it has none
MapGet(m, k) == IF k \in DOMAIN m THEN m[k] ELSE <<>>

\* a map with one more entry
MapPut(m, k, v) == [x \in (DOMAIN m) \cup {k} |-> IF x = k THEN v ELSE m[x]]

\* The loop of groupBy at (0-based) index i. g[j] is grouper(s[j]).
RECURSIVE groupLoop(_, _, _, _, _, _, _)
groupLoop(s, g, i, start, startVal, out, keys) ==
    IF i >= Len(s) THEN [out |-> out, keys |-> keys]
    ELSE LET val == g[i + 1]
         IN  IF val # startVal \/ i = Len(s) - 1
             THEN LET chunk == SubSeq(s, start + 1, i)
                  IN  IF startVal \notin DOMAIN out
                      THEN groupLoop(s, g, i + 1, i, val,
                                     MapPut(out, startVal, chunk), Append(keys, startVal))
                      ELSE groupLoop(s, g, i + 1, i, val,
                                     MapPut(out, startVal, out[startVal] \o chunk), keys)
             ELSE groupLoop(s, g, i + 1, start, startVal, out, keys)

\* groupBy(s, grouper), with g the grouper's value for each element of s
groupBy(s, g) ==
    IF Len(s) = 0 THEN [out |-> <<>>, keys |-> <<>>]
    ELSE groupLoop(s, g, 1, 0, g[1], <<>>, <<>>)

RECURSIVE kindsFrom(_, _, _)
kindsFrom(pts, aes, i) ==
    IF i > Len(pts) THEN kindAll
    ELSE BitAnd(pts[i][aes].kinds, kindsFrom(pts, aes, i + 1))

\* pointsKinds(pts, aes), for an aesthetic that indexes a point
pointsKinds(pts, aes) == kindsFrom(pts, aes, 1)

\* pointsToSample(pts, aes) panics
sampleFaults(pts, aes) ==
    \E i \in 1 .. Len(pts) : BitAnd(pts[i][aes].kinds, kindContinuous) = 0

\* pointsToSample(pts, aes): the sample's values
pointsToSample(pts, aes) == [i \in 1 .. Len(pts) |-> pts[i][aes].val]

\* xs with x inserted before the first larger element
RECURSIVE InsertSorted(_, _)
InsertSorted(xs, x) ==
    IF xs = <<>> THEN <<x>>
    ELSE IF FloatLess(x, Head(xs)) THEN <<x>> \o xs
    ELSE <<Head(xs)>> \o InsertSorted(Tail(xs), x)

RECURSIVE SortFloats(_)
SortFloats(xs) == IF xs = <<>> THEN <<>> ELSE InsertSorted(SortFloats(Tail(xs)), Head(xs))

\* the sample median; NaN for the empty sample
Median(xs) ==
    LET n == Len(xs)
        ys == SortFloats(xs)
    IN  IF n = 0 THEN Rat(0, 0)
        ELSE IF n % 2 = 1 THEN ys[(n + 1) \div 2]
        ELSE FloatDiv(FloatAdd(ys[n \div 2], ys[n \div 2 + 1]), FloatOf(2))

\* benchmath.AssumeNothing.Summary(sample, confidence), kept at ptr: the
\* center is the median; the interval is modelled as the sample's range
Summary(xs, ptr) ==
    LET ys == SortFloats(xs)
    IN  [ptr |-> ptr, center |-> Median(xs),
         lo |-> IF ys = <<>> THEN Rat(0, 0) ELSE ys[1],
         hi |-> IF ys = <<>> THEN Rat(0, 0) ELSE ys[Len(ys)]]

(***************************************************************************)
(* transformSummarize.                                                     *)
(***************************************************************************)
\* the grouper of transformSummarize
summarizeGrouper(pt, aes) == [pt EXCEPT ![aes] = ZeroValue]

transformSummarize_noShortcut(pts, aes, gen) ==
    LET kinds == pointsKinds(pts, aes)
    IN  IF BitAnd(kinds, kindContinuous) = 0
        THEN [out |-> <<>>, err |-> "transformSummarize: data must be numeric",
              fault |-> "", alloc |-> FALSE]
        ELSE LET g == groupBy(pts, [i \in 1 .. Len(pts) |-> summarizeGrouper(pts[i], aes)])
                 keys == g.keys
                 groups == g.out
             IN  IF \E i \in 1 .. Len(keys) : sampleFaults(groups[keys[i]], aes)
                 THEN [out |-> <<>>, err |-> "", fault |-> "non-continuous", alloc |-> TRUE]
                 ELSE [out |-> [i \in 1 .. Len(keys) |->
                                  LET summary == Summary(pointsToSample(groups[keys[i]], aes),
                                                         <<gen, i>>)
                                      v == [ZeroValue EXCEPT
                                              !.kinds = BitOr(BitOr(kindContinuous, kindSummary),
                                                              BitAnd(kinds, kindRatio)),
                                              !.val = summary.center,
                                              !.summary = summary]
                                  IN  [groups[keys[i]][1] EXCEPT ![aes] = v]],
                       err |-> "", fault |-> "", alloc |-> TRUE]

\* transformSummarize(pts, aes, confidence); gen names the summaries slice
\* the call allocates
transformSummarize_dropRatio(pts, aes, gen) ==
    LET kinds == pointsKinds(pts, aes)
    IN  IF BitAnd(kinds, kindSummary) # 0
        THEN [out |-> pts, err |-> "", fault |-> "", alloc |-> FALSE]
        ELSE IF BitAnd(kinds, kindContinuous) = 0
        THEN [out |-> <<>>, err |-> "transformSummarize: data must be numeric",
              fault |-> "", alloc |-> FALSE]
        ELSE LET g == groupBy(pts, [i \in 1 .. Len(pts) |-> summarizeGrouper(pts[i], aes)])
                 keys == g.keys
                 groups == g.out
             IN  IF \E i \in 1 .. Len(keys) : sampleFaults(groups[keys[i]], aes)
                 THEN [out |-> <<>>, err |-> "", fault |-> "non-continuous", alloc |-> TRUE]
                 ELSE [out |-> [i \in 1 .. Len(keys) |->
                                  LET summary == Summary(pointsToSample(groups[keys[i]], aes),
                                                         <<gen, i>>)
                                      v == [ZeroValue EXCEPT
                                              !.kinds = BitOr(kindContinuous, kindSummary),
                                              !.val = summary.center,
                                              !.summary = summary]
                                  IN  [groups[keys[i]][1] EXCEPT ![aes] = v]],
                       err |-> "", fault |-> "", alloc |-> TRUE]

transformSummarize(pts, aes, gen) ==
    LET kinds == pointsKinds(pts, aes)
    IN  IF BitAnd(kinds, kindSummary) # 0
        THEN [out |-> pts, err |-> "", fault |-> "", alloc |-> FALSE]
        ELSE IF BitAnd(kinds, kindContinuous) = 0
        THEN [out |-> <<>>, err |-> "transformSummarize: data must be numeric",
              fault |-> "", alloc |-> FALSE]
        ELSE LET g == groupBy(pts, [i \in 1 .. Len(pts) |-> summarizeGrouper(pts[i], aes)])
                 keys == g.keys
                 groups == g.out
             IN  IF \E i \in 1 .. Len(keys) : sampleFaults(groups[keys[i]], aes)
                 THEN [out |-> <<>>, err |-> "", fault |-> "non-continuous", alloc |-> TRUE]
                 ELSE [out |-> [i \in 1 .. Len(keys) |->
                                  LET summary == Summary(pointsToSample(groups[keys[i]], aes),
                                                         <<gen, i>>)
                                      v == [ZeroValue EXCEPT
                                              !.kinds = BitOr(BitOr(kindContinuous, kindSummary),
                                                              BitAnd(kinds, kindRatio)),
                                              !.val = summary.center,
                                              !.summary = summary]
                                  IN  [groups[keys[i]][1] EXCEPT ![aes] = v]],
                       err |-> "", fault |-> "", alloc |-> TRUE]

(***************************************************************************)
(* transformCompare.                                                       *)
(***************************************************************************)
\* The orders slices.SortFunc may leave the points with indices in idx in:
\* it sorts by cmp and does not promise to keep equal elements in order.
\* (Of several equal points the first is taken first: their order cannot be
\* told apart.)
RECURSIVE SortOutcomes_descending(_, _, _)
SortOutcomes_descending(pts, aes, idx) ==
    IF idx = {} THEN {<<>>}
    ELSE UNION {
           {<<pts[i]>> \o rest : rest \in SortOutcomes_descending(pts, aes, idx \ {i})} :
             i \in {j \in idx :
                      /\ \A k \in idx : compare(pts[k][aes], pts[j][aes]) <= 0
                      /\ \A k \in idx : pts[k] = pts[j] => k >= j}}

RECURSIVE SortOutcomes(_, _, _)
SortOutcomes(pts, aes, idx) ==
    IF idx = {} THEN {<<>>}
    ELSE UNION {
           {<<pts[i]>> \o rest : rest \in SortOutcomes(pts, aes, idx \ {i})} :
             i \in {j \in idx :
                      /\ \A k \in idx : compare(pts[k][aes], pts[j][aes]) >= 0
                      /\ \A k \in idx : pts[k] = pts[j] => k >= j}}

\* the sort's comparisons panic
sortFaults(pts, aes) ==
    \E i, j \in 1 .. Len(pts) : i # j /\ compare(pts[i][aes], pts[j][aes]) = Incomparable

\* the grouper of transformCompare's first groupBy
compareGrouper(pt, aesCompare, aesRatio) ==
    [[pt EXCEPT ![aesCompare] = ZeroValue] EXCEPT ![aesRatio] = ZeroValue]

\* median(pts) of transformCompare
median(pts, aesRatio) == Summary(pointsToSample(pts, aesRatio), <<0, 0>>).center

\* the points the loop over cmpKeys[1:] emits, from (1-based) position i on
RECURSIVE emitFrom(_, _, _, _, _, _, _)
emitFrom_ratioOnly(cmpGroups, cmpKeys, i, cmpBase, baseline, aesCompare, aesRatio) ==
    IF i > Len(cmpKeys) THEN <<>>
    ELSE LET ck == cmpKeys[i]
             ratio == FloatDiv(median(cmpGroups[ck], aesRatio), baseline)
             p0 == cmpGroups[ck][1]
             ck2 == [ck EXCEPT !.kinds = BitOr(ck.kinds, kindRatio), !.denom = cmpBase.key]
             p1 == [p0 EXCEPT ![aesCompare] = ck2]
             p2 == [p1 EXCEPT ![aesRatio] =
                      [ZeroValue EXCEPT !.kinds = kindRatio,
                                        !.val = ratio]]
         IN  <<p2>> \o emitFrom(cmpGroups, cmpKeys, i + 1, cmpBase, baseline,
                                aesCompare, aesRatio)

emitFrom_ownDenom(cmpGroups, cmpKeys, i, cmpBase, baseline, aesCompare, aesRatio) ==
    IF i > Len(cmpKeys) THEN <<>>
    ELSE LET ck == cmpKeys[i]
             ratio == FloatDiv(median(cmpGroups[ck], aesRatio), baseline)
             p0 == cmpGroups[ck][1]
             ck2 == [ck EXCEPT !.kinds = BitOr(ck.kinds, kindRatio), !.denom = ck.key]
             p1 == [p0 EXCEPT ![aesCompare] = ck2]
             p2 == [p1 EXCEPT ![aesRatio] =
                      [ZeroValue EXCEPT !.kinds = BitOr(kindContinuous, kindRatio),
                                        !.val = ratio]]
         IN  <<p2>> \o emitFrom(cmpGroups, cmpKeys, i + 1, cmpBase, baseline,
                                aesCompare, aesRatio)

emitFrom(cmpGroups, cmpKeys, i, cmpBase, baseline, aesCompare, aesRatio) ==
    IF i > Len(cmpKeys) THEN <<>>
    ELSE LET ck == cmpKeys[i]
             ratio == FloatDiv(median(cmpGroups[ck], aesRatio), baseline)
             p0 == cmpGroups[ck][1]
             ck2 == [ck EXCEPT !.kinds = BitOr(ck.kinds, kindRatio), !.denom = cmpBase.key]
             p1 == [p0 EXCEPT ![aesCompare] = ck2]
             p2 == [p1 EXCEPT ![aesRatio] =
                      [ZeroValue EXCEPT !.kinds = BitOr(kindContinuous, kindRatio),
                                        !.val = ratio]]
         IN  <<p2>> \o emitFrom(cmpGroups, cmpKeys, i + 1, cmpBase, baseline,
                                aesCompare, aesRatio)

\* the loop over keys of transformCompare from (1-based) position i on
RECURSIVE compareFrom(_, _, _, _, _, _)
compareFrom(groups, keys, i, cmpBase, aesCompare, aesRatio) ==
    IF i > Len(keys) THEN [out |-> <<>>, fault |-> ""]
    ELSE LET group == groups[keys[i]]
         IN  IF group[1][aesCompare] # cmpBase
             THEN compareFrom(groups, keys, i + 1, cmpBase, aesCompare, aesRatio)
             ELSE LET c == groupBy(group, [j \in 1 .. Len(group) |-> group[j][aesCompare]])
                      baseline == median(MapGet(c.out, cmpBase), aesRatio)
                  IN  IF Len(c.keys) < 1
                      THEN [out |-> <<>>, fault |-> "slice bounds out of range [1:0]"]
                      ELSE LET rest == compareFrom(groups, keys, i + 1, cmpBase,
                                                   aesCompare, aesRatio)
                           IN  [out |-> emitFrom(c.out, c.keys, 2, cmpBase, baseline,
                                                 aesCompare, aesRatio) \o rest.out,
                                fault |-> rest.fault]

transformCompare_sortFirst(pts, aesCompare, aesRatio, sorted) ==
    IF Len(pts) = 0
    THEN [out |-> <<>>, err |-> "", fault |-> "", pts |-> pts, base |-> ZeroValue]
    ELSE IF aesRatio \notin Aes
    THEN [out |-> <<>>, err |-> "", fault |-> "index out of range [-1]", pts |-> pts,
          base |-> ZeroValue]
    ELSE IF sortFaults(pts, aesCompare)
    THEN [out |-> <<>>, err |-> "", fault |-> "incomparable kinds", pts |-> pts,
          base |-> ZeroValue]
    ELSE IF BitAnd(pointsKinds(pts, aesRatio), kindContinuous) = 0
    THEN [out |-> <<>>, err |-> "transformCompare: data must be numeric",
          fault |-> "", pts |-> sorted, base |-> ZeroValue]
    ELSE LET cmpBase == sorted[1][aesCompare]
             g == groupBy(sorted, [i \in 1 .. Len(sorted) |->
                                     compareGrouper(sorted[i], aesCompare, aesRatio)])
             r == compareFrom(g.out, g.keys, 1, cmpBase, aesCompare, aesRatio)
         IN  [out |-> r.out, err |-> "", fault |-> r.fault, pts |-> sorted,
              base |-> cmpBase]

\* transformCompare(pts, aesCompare, aesRatio), when slices.SortFunc leaves
\* the points in the order sorted: the result, and the slice pts as the call
\* leaves it
transformCompare(pts, aesCompare, aesRatio, sorted) ==
    IF Len(pts) = 0
    THEN [out |-> <<>>, err |-> "", fault |-> "", pts |-> pts, base |-> ZeroValue]
    ELSE IF aesRatio \notin Aes
    THEN [out |-> <<>>, err |-> "", fault |-> "index out of range [-1]", pts |-> pts,
          base |-> ZeroValue]
    ELSE IF BitAnd(pointsKinds(pts, aesRatio), kindContinuous) = 0
    THEN [out |-> <<>>, err |-> "transformCompare: data must be numeric",
          fault |-> "", pts |-> pts, base |-> ZeroValue]
    ELSE IF sortFaults(pts, aesCompare)
    THEN [out |-> <<>>, err |-> "", fault |-> "incomparable kinds", pts |-> pts,
          base |-> ZeroValue]
    ELSE LET cmpBase == sorted[1][aesCompare]
             g == groupBy(sorted, [i \in 1 .. Len(sorted) |->
                                     compareGrouper(sorted[i], aesCompare, aesRatio)])
             r == compareFrom(g.out, g.keys, 1, cmpBase, aesCompare, aesRatio)
         IN  [out |-> r.out, err |-> "", fault |-> r.fault, pts |-> sorted,
              base |-> cmpBase]

(***************************************************************************)
(* The state machine.                                                      *)
(***************************************************************************)
NoLast ==
    [op |-> "none", rec |-> CHOOSE r \in Records : TRUE, aes |-> aesNone, n |-> 0,
     base |-> ZeroValue, args |-> <<>>, ret |-> <<>>]

\* main's flags and locals outside a run of benchplot: no -log-scale and no
\* -transform option, every scale linear, no transform listed, no record
\* parsed, no call made and no file written
NoMain ==
    [flagLogScale |-> <<>>, flagTransform |-> <<>>, logScale |-> [a \in Aes |-> 0],
     transforms |-> <<>>, nParsed |-> 0, calls |-> <<>>, out |-> <<>>]

\* NewConfig()
Init ==
    /\ config = [a \in Aes |-> ZeroProjection]
    /\ plot = NoPlot
    /\ points = <<>>
    /\ err = ""
    /\ fault = ""
    /\ pc = "config"
    /\ last = NoLast
    /\ prev = <<>>
    /\ heap = 0
    /\ main = NoMain

\* how many aesthetics the Config has bound
nSet == Cardinality({a \in Aes : config[a] # ZeroProjection})

\* Config.SetIV(aes, iv)
SetIV(aes, iv) ==
    /\ pc = "config"
    /\ nSet < MaxSets
    /\ config[aes] = ZeroProjection
    /\ config' = [config EXCEPT ![aes] = IVProjection(iv)]
    /\ UNCHANGED <<plot, points, err, fault, pc, last, prev, heap, main>>

\* Config.SetDV(aes)
SetDV(aes) ==
    /\ pc = "config"
    /\ nSet < MaxSets
    /\ config[aes] = ZeroProjection
    /\ config' = [config EXCEPT ![aes] = DVProjection]
    /\ UNCHANGED <<plot, points, err, fault, pc, last, prev, heap, main>>

\* NewPlot(config)
NewPlot ==
    /\ pc = "config"
    /\ LET r == NewPlotOf(config)
       IN  /\ plot' = r.plot
           /\ err' = r.err
           /\ pc' = IF r.err = "" THEN "adding" ELSE "failed"
    /\ last' = [NoLast EXCEPT !.op = "NewPlot"]
    /\ UNCHANGED <<config, points, fault, prev, heap, main>>

AddWithin_replace(rec, max) ==
    /\ pc = "adding"
    /\ LET new == AddOf(plot, rec)
       IN  /\ Len(points) + Len(new) <= max
           /\ points' = new
    /\ last' = [NoLast EXCEPT !.op = "Add", !.rec = rec, !.n = Len(points)]
    /\ UNCHANGED <<config, plot, err, fault, pc, prev, heap, main>>

\* Plot.Add(rec), while the collection stays within max points
AddWithin(rec, max) ==
    /\ pc = "adding"
    /\ LET new == AddOf(plot, rec)
       IN  /\ Len(points) + Len(new) <= max
           /\ points' = points \o new
    /\ last' = [NoLast EXCEPT !.op = "Add", !.rec = rec, !.n = Len(points)]
    /\ UNCHANGED <<config, plot, err, fault, pc, prev, heap, main>>

Add(rec) == AddWithin(rec, MaxPoints)

Next ==
    \/ \E aes \in Aes, iv \in IVs : SetIV(aes, iv)
    \/ \E aes \in Aes : SetDV(aes)
    \/ NewPlot
    \/ \E rec \in Records : Add(rec)

Spec == Init /\ [][Next]_vars

(***************************************************************************)
(* The transforms, on Plots of a few configurations fed records of one     *)
(* unit.                                                                   *)
(***************************************************************************)
\* a Config binding the aesthetics of dvs to .value, those of units to
\* .unit and those of fs to the field f
ConfigOf(dvs, units, fs) ==
    [a \in Aes |-> IF a \in dvs THEN DVProjection
                   ELSE IF a \in units THEN IVProjection(<<".unit">>)
                   ELSE IF a \in fs THEN IVProjection(<<"f">>)
                   ELSE ZeroProjection]

ConfigsT ==
    { ConfigOf({AesY}, {AesRow}, {AesColor}),
      ConfigOf({AesY}, {AesRow}, {AesX, AesColor}),
      ConfigOf({AesColor}, {AesX}, {}),
      ConfigOf({}, {}, {AesColor}),
      ConfigOf({}, {}, {}) }

RecordsT == {r \in Records : r.units = <<"ns">> /\ r.metric["ns"] # Absent}

InitT ==
    /\ config \in ConfigsT
    /\ plot = NoPlot
    /\ points = <<>>
    /\ err = ""
    /\ fault = ""
    /\ pc = "config"
    /\ last = NoLast
    /\ prev = <<>>
    /\ heap = 0
    /\ main = NoMain

AddT(rec) == AddWithin(rec, MaxPointsT)

\* the Summarize transform: transformSummarize's result replaces the points
Summarize(aes) ==
    /\ pc \in {"adding", "transforming"}
    /\ heap < MaxTransforms
    /\ LET r == transformSummarize(points, aes, heap + 1)
       IN  /\ points' = IF r.err = "" /\ r.fault = "" THEN r.out ELSE points
           /\ err' = r.err
           /\ fault' = r.fault
           /\ pc' = IF r.fault # "" THEN "aborted"
                    ELSE IF r.err # "" THEN "failed" ELSE "transforming"
    /\ heap' = heap + 1
    /\ last' = [NoLast EXCEPT !.op = "Summarize", !.aes = aes, !.n = Len(points)]
    /\ prev' = points
    /\ UNCHANGED <<config, plot, main>>

\* Plot.TransformCompare()
TransformCompare ==
    /\ pc \in {"adding", "transforming"}
    /\ heap < MaxTransforms
    /\ \E sorted \in SortOutcomes(points, AesColor, 1 .. Len(points)) :
          LET r == transformCompare(points, AesColor, plot.dvAes, sorted)
          IN  /\ points' = IF r.err = "" /\ r.fault = "" THEN r.out ELSE r.pts
              /\ err' = r.err
              /\ fault' = r.fault
              /\ pc' = IF r.fault # "" THEN "aborted"
                       ELSE IF r.err # "" THEN "failed" ELSE "transforming"
              /\ last' = [NoLast EXCEPT !.op = "Compare", !.aes = AesColor,
                                        !.n = Len(points),
                                        !.base = r.base]
    /\ heap' = heap + 1
    /\ prev' = points
    /\ UNCHANGED <<config, plot, main>>

NextT ==
    \/ NewPlot
    \/ \E rec \in RecordsT : AddT(rec)
    \/ \E aes \in Aes : Summarize(aes)
    \/ TransformCompare

SpecT == InitT /\ [][NextT]_vars

(***************************************************************************)
(* Properties of NewPlot and Plot.Add.                                     *)
(***************************************************************************)
\* how many aesthetics a Config binds to the dependent variable
nDV(c) == Cardinality({a \in Aes : c[a].dv})

\* how many aesthetics a Config binds to a projection with the unit field
nUnit(c) == Cardinality({a \in Aes : c[a].unitField # NoField})

\* the unit candidates of rec whose metric is found, in candidate order
FoundUnits(rec) == SelectSeq(rec.units, LAMBDA u : rec.metric[u] # Absent)

\* the points the last Add appended
NewPoints == SubSeq(points, last.n + 1, Len(points))

\* the unit name a point carries at the unit aesthetic
UnitNameOf(pt) ==
    KeyGet(pt[plot.unitAes].key, plot.aes[plot.unitAes].iv, UnitFieldName)

\* C1: NewPlot succeeds if and only if the Config binds at most one aesthetic
\* to .value, at most one to .unit, and both or neither; otherwise it returns
\* an error and no Plot.
C1_NewPlotIffPaired ==
    last.op = "NewPlot" =>
        /\ err = "" <=> /\ nDV(config) <= 1
                        /\ nUnit(config) <= 1
                        /\ (nDV(config) = 1 <=> nUnit(config) = 1)
        /\ err = "" => pc = "adding" /\ plot.aes = config
        /\ err # "" => pc = "failed" /\ plot = NoPlot

\* NewPlot has refused a Config that binds .value and no .unit
C1_Witness ==
    last.op = "NewPlot" /\ err # "" /\ nDV(config) = 1 /\ nUnit(config) = 0

\* C2: on a Plot with a unit-bound aesthetic, one Add of a record with N
\* unit candidates of which M have a metric appends exactly M points.
C2_AddAppendsFound ==
    (last.op = "Add" /\ plot.unitAes # aesNone) =>
        Len(points) - last.n = Len(FoundUnits(last.rec))

\* an Add of a record with two candidates, one of them without a metric,
\* has appended one point
C2_Witness ==
    /\ last.op = "Add"
    /\ plot.unitAes # aesNone
    /\ Len(last.rec.units) = 2
    /\ Len(FoundUnits(last.rec)) = 1
    /\ Len(points) - last.n = 1

\* C3: every point an Add appends holds, at the dependent-variable
\* aesthetic, exactly a Continuous Value with the metric the record holds for
\* the unit named at the point's unit aesthetic, wherever the two aesthetics
\* stand in the expansion order.
C3_DVIsUnitMetric ==
    (last.op = "Add" /\ plot.dvAes # aesNone) =>
        \A i \in last.n + 1 .. Len(points) :
            LET m == RecValue(last.rec, UnitNameOf(points[i]))
            IN  /\ m.ok
                /\ points[i][plot.dvAes] =
                       [ZeroValue EXCEPT !.kinds = kindContinuous, !.val = m.val]

\* an Add has fanned out into two points of different metrics, on a Plot
\* whose dependent-variable aesthetic comes before its unit aesthetic
C3_Witness ==
    /\ last.op = "Add"
    /\ plot.dvAes # aesNone
    /\ plot.dvAes < plot.unitAes
    /\ Len(points) - last.n = 2
    /\ points[last.n + 1][plot.dvAes].val # points[last.n + 2][plot.dvAes].val

\* C4: an Add leaves the points it found as an unchanged prefix of the
\* collection, and the points it appends are in the order the unit
\* projection produced their candidates.
C4_AddOnlyAppends ==
    [][last'.op = "Add" =>
         /\ Len(points') >= Len(points)
         /\ SubSeq(points', 1, Len(points)) = points
         /\ last'.n = Len(points)
         /\ plot.unitAes # aesNone =>
               [i \in 1 .. Len(points') - Len(points) |->
                   UnitNameOf(points'[Len(points) + i])] = FoundUnits(last'.rec)]_vars

\* an Add has appended two points to a collection that held one
C4_Witness ==
    last.op = "Add" /\ last.n >= 1 /\ Len(points) - last.n = 2

Elems(s) == {s[i] : i \in 1 .. Len(s)}

\* the last transform was a Summarize that found Continuous Values at its
\* aesthetic, not all of them Summary, and returned a result
SummarizedContinuous ==
    /\ last.op = "Summarize"
    /\ err = ""
    /\ fault = ""
    /\ BitAnd(pointsKinds(prev, last.aes), kindSummary) = 0
    /\ BitAnd(pointsKinds(prev, last.aes), kindContinuous) # 0

\* C6: Summarize(aes) of Continuous Values returns exactly one point per
\* distinct combination of the Values at the other aesthetics in its input:
\* none missing, none twice.
C6_SummarizeOnePerCombination ==
    SummarizedContinuous =>
        /\ {summarizeGrouper(pt, last.aes) : pt \in Elems(points)}
              = {summarizeGrouper(pt, last.aes) : pt \in Elems(prev)}
        /\ Len(points) = Cardinality({summarizeGrouper(pt, last.aes) : pt \in Elems(prev)})

\* C7: Summarize(aes) of points whose aes Values are all Summary returns the
\* same points in the same order and no error; so summarizing the result of a
\* Summarize again returns that result.
C7_SummarizeIdempotent ==
    /\ (last.op = "Summarize" /\ BitAnd(pointsKinds(prev, last.aes), kindSummary) # 0) =>
          points = prev /\ err = "" /\ fault = ""
    /\ \A aes \in Aes :
          LET r == transformSummarize(points, aes, heap + 1)
              r2 == transformSummarize(r.out, aes, heap + 2)
          IN  (r.err = "" /\ r.fault = "") =>
                  r2.out = r.out /\ r2.err = "" /\ r2.fault = ""

\* a Summarize has been applied to a collection of summaries
C7_Witness ==
    /\ last.op = "Summarize"
    /\ Len(prev) >= 1
    /\ \A i \in 1 .. Len(prev) : BitAnd(prev[i][last.aes].kinds, kindSummary) # 0
    /\ points = prev

\* the last transform was a Compare, on a Plot whose dependent variable is
\* bound to another aesthetic than the one compared, and it returned a result
Compared ==
    /\ last.op = "Compare"
    /\ plot.dvAes \in Aes \ {AesColor}
    /\ err = ""
    /\ fault = ""

\* the combination of the remaining aesthetics of a point
Combination(pt) == compareGrouper(pt, AesColor, plot.dvAes)

\* the points of pts with combination k and compareAes Value c
Subgroup(pts, k, c) ==
    SelectSeq(pts, LAMBDA pt : Combination(pt) = k /\ pt[AesColor] = c)

\* C8: for every combination of the remaining aesthetics that holds a
\* baseline point, Compare emits exactly one point for each other compareAes
\* Value in the combination, with the ratio of the medians, and none for the
\* baseline.
C8_CompareEmitsRatios ==
    Compared =>
        \A k \in {Combination(pt) : pt \in Elems(prev)} :
            Subgroup(prev, k, last.base) # <<>> =>
                /\ \A c \in {pt[AesColor] : pt \in Elems(prev)} \ {last.base} :
                      Subgroup(prev, k, c) # <<>> =>
                          Cardinality({i \in 1 .. Len(points) :
                              /\ Combination(points[i]) = k
                              /\ points[i][AesColor].key = c.key
                              /\ points[i][plot.dvAes].val =
                                    FloatDiv(median(Subgroup(prev, k, c), plot.dvAes),
                                             median(Subgroup(prev, k, last.base), plot.dvAes))})
                            = 1
                /\ ~ \E i \in 1 .. Len(points) :
                        /\ Combination(points[i]) = k
                        /\ points[i][AesColor].key = last.base.key

\* C9: Compare returns normally for every non-empty collection whose
\* ratioAes Values are all Continuous.
C9_CompareNeverAborts ==
    (/\ last.op = "Compare"
     /\ plot.dvAes \in Aes
     /\ Len(prev) >= 1
     /\ BitAnd(pointsKinds(prev, plot.dvAes), kindContinuous) # 0) => fault = ""

\* the baseline of the last Compare is first by compare among the compareAes
\* Values of its input
BaselineIsFirst ==
    \A i \in 1 .. Len(prev) : compare(last.base, prev[i][AesColor]) <= 0

\* C10 as claimed: every point Compare emits has a compareAes Value that is
\* Ratio and Discrete, with the baseline's key as denominator, and a ratioAes
\* Value of kinds Continuous and Ratio; the baseline is the first compareAes
\* Value in sorted order.
C10_CompareMarksRatio ==
    (last.op = "Compare" /\ err = "" /\ fault = "" /\ Len(prev) >= 1) =>
        /\ BaselineIsFirst
        /\ \A i \in 1 .. Len(points) :
              /\ BitAnd(points[i][AesColor].kinds, kindRatio) # 0
              /\ BitAnd(points[i][AesColor].kinds, kindDiscrete) # 0
              /\ points[i][AesColor].denom = last.base.key
              /\ points[i][plot.dvAes].kinds = BitOr(kindContinuous, kindRatio)

\* C10, amended: the baseline is the first compareAes Value in sorted order;
\* every point Compare emits has a ratioAes Value of kinds exactly Continuous
\* and Ratio and, unless compareAes is itself the ratioAes (the colour is
\* bound to the dependent variable), a compareAes Value that is Ratio with
\* the baseline's key as denominator, and Discrete when the compareAes Values
\* of the input were Discrete.
C10_CompareMarksRatioUnlessSame ==
    (last.op = "Compare" /\ err = "" /\ fault = "" /\ Len(prev) >= 1) =>
        /\ BaselineIsFirst
        /\ \A i \in 1 .. Len(points) :
              /\ points[i][plot.dvAes].kinds = BitOr(kindContinuous, kindRatio)
              /\ plot.dvAes # AesColor =>
                    /\ BitAnd(points[i][AesColor].kinds, kindRatio) # 0
                    /\ points[i][AesColor].denom = last.base.key
                    /\ BitAnd(pointsKinds(prev, AesColor), kindDiscrete) # 0 =>
                          BitAnd(points[i][AesColor].kinds, kindDiscrete) # 0

\* a Compare has emitted a point for a colour other than the baseline
C10_Witness ==
    /\ last.op = "Compare"
    /\ fault = ""
    /\ plot.dvAes # AesColor
    /\ Len(points) >= 1
    /\ points[1][AesColor].key # last.base.key
    /\ BitAnd(points[1][AesColor].kinds, kindDiscrete) # 0

(***************************************************************************)
(* Scales: sortedValues, ordScale, pointsUnits, continuousScale.           *)
(***************************************************************************)
\* strings.Join(parts, sep)
RECURSIVE Join(_, _)
Join(parts, sep) ==
    IF parts = <<>> THEN ""
    ELSE IF Len(parts) = 1 THEN parts[1]
    ELSE parts[1] \o sep \o Join(Tail(parts), sep)

\* projection.String()
ProjectionString(p) ==
    IF p.dv THEN ".value"
    ELSE IF p.hasIV THEN Join(p.iv, ",")
    ELSE "<nil>"

\* The orders sortedValues(set) may return: the map is ranged over in any
\* order and slices.SortFunc sorts by compare, so Values that compare equal
\* may come out in either order.
RECURSIVE sortedValues(_)
sortedValues(set) ==
    IF set = {} THEN {<<>>}
    ELSE UNION {
           {<<v>> \o rest : rest \in sortedValues(set \ {v})} :
             v \in {m \in set : \A w \in set : compare(w, m) >= 0}}

\* the sort of sortedValues panics
sortedValuesFaults(set) ==
    \E v, w \in set : v # w /\ compare(v, w) = Incomparable

\* the Values at aes across pts (the keys of ordScale's vals map)
valsOf(pts, aes) == {pts[i][aes] : i \in 1 .. Len(pts)}

ordScale_reversed(pts, aes, sorted) ==
    LET ord == [v \in Range(sorted) |->
                   Len(sorted) - (CHOOSE i \in 1 .. Len(sorted) :
                                     /\ sorted[i] = v
                                     /\ \A j \in i + 1 .. Len(sorted) : sorted[j] # v)]
    IN  [ord |-> ord, bound |-> Cardinality(DOMAIN ord), aes |-> aes]

\* ordScale(pts, aes), when sortedValues(vals) returns sorted: the mapping
\* index ord and the bound len(ord); the scale closure is scaleOf
ordScale(pts, aes, sorted) ==
    LET ord == [v \in Range(sorted) |->
                   (CHOOSE i \in 1 .. Len(sorted) :
                       /\ sorted[i] = v
                       /\ \A j \in i + 1 .. Len(sorted) : sorted[j] # v) - 1]
    IN  [ord |-> ord, bound |-> Cardinality(DOMAIN ord), aes |-> aes]

scaleOf_default(sc, pt) ==
    IF pt[sc.aes] \in DOMAIN sc.ord
    THEN [idx |-> sc.ord[pt[sc.aes]], fault |-> ""]
    ELSE [idx |-> 0, fault |-> ""]

\* the closure ordScale returns, applied to pt
scaleOf(sc, pt) ==
    IF pt[sc.aes] \in DOMAIN sc.ord
    THEN [idx |-> sc.ord[pt[sc.aes]], fault |-> ""]
    ELSE [idx |-> -1, fault |-> "value has unmapped key"]

\* the loop of pointsUnits from (1-based) position i on
RECURSIVE unitsFrom(_, _, _, _)
unitsFrom(p, pts, i, unitNames) ==
    IF i > Len(pts) THEN unitNames
    ELSE LET n == KeyGet(pts[i][p.unitAes].key, p.aes[p.unitAes].iv, UnitFieldName)
         IN  IF \E j \in 1 .. Len(unitNames) : unitNames[j] = n
             THEN unitsFrom(p, pts, i + 1, unitNames)
             ELSE unitsFrom(p, pts, i + 1, Append(unitNames, n))

\* Plot.pointsUnits(pts)
pointsUnits(p, pts) ==
    IF Len(pts) = 0 \/ p.unitAes = aesNone THEN <<>>
    ELSE unitsFrom(p, pts, 1, <<>>)

\* min and max on float64
FloatMin(a, b) == IF FloatLess(b, a) THEN b ELSE a

FloatMax(a, b) == IF FloatLess(a, b) THEN b ELSE a

\* the "find bounds" loop of continuousScale from (1-based) position i on
RECURSIVE boundsFrom(_, _, _, _, _)
boundsFrom(pts, aes, i, lo, hi) ==
    IF i > Len(pts) THEN [lo |-> lo, hi |-> hi]
    ELSE LET val == pts[i][aes].val
         IN  IF i = 1 THEN boundsFrom(pts, aes, i + 1, val, val)
             ELSE boundsFrom(pts, aes, i + 1, FloatMin(lo, val), FloatMax(hi, val))

\* benchunit.ClassOf(unit): the byte unit scales in powers of 1024
ClassOf(unit) == IF unit = "by" THEN "Binary" ELSE "Decimal"

\* benchunit.CommonScale([]float64{v}, cls): the largest factor of the class
\* not above v, among the factors the model's magnitudes reach
CommonScale(v, cls) ==
    IF cls = "Binary"
    THEN IF FloatLess(v, FloatOf(1024)) THEN [Factor |-> FloatOf(1), Prefix |-> ""]
         ELSE [Factor |-> FloatOf(1024), Prefix |-> "Ki"]
    ELSE IF FloatLess(v, FloatOf(1000)) THEN [Factor |-> FloatOf(1), Prefix |-> ""]
         ELSE [Factor |-> FloatOf(1000), Prefix |-> "k"]

\* a scale closure of continuousScale: nil, or v |-> v / factor
NilScale == [set |-> FALSE, factor |-> FloatZero]

DivScale(factor) == [set |-> TRUE, factor |-> factor]

IdentityScale == DivScale(FloatOf(1))

\* the closure applied to v
Scaled(scale, v) == FloatDiv(v, scale.factor)

continuousScale_rescaleAny(p, pts, aes, rescale) ==
    IF BitAnd(pointsKinds(pts, aes), kindContinuous) = 0
    THEN [scale |-> NilScale, lo |-> FloatZero, hi |-> FloatZero, label |-> "",
          err |-> "data must be numeric"]
    ELSE LET b == boundsFrom(pts, aes, 1, FloatZero, FloatZero)
             projection == p.aes[aes]
         IN  IF Len(pts) = 0
             THEN [scale |-> IdentityScale, lo |-> b.lo, hi |-> b.hi,
                   label |-> ProjectionString(projection), err |-> ""]
             ELSE LET unitNames == pointsUnits(p, pts)
                      cls == IF Len(unitNames) = 1 THEN ClassOf(unitNames[1]) ELSE "Decimal"
                      scaler == CommonScale(b.hi, cls)
                      prefix == IF rescale THEN scaler.Prefix ELSE ""
                  IN  [scale |-> IF rescale THEN DivScale(scaler.Factor) ELSE IdentityScale,
                       lo |-> b.lo, hi |-> b.hi,
                       label |-> Join([i \in 1 .. Len(unitNames) |-> prefix \o unitNames[i]],
                                      ", "),
                       err |-> ""]

continuousScale_byLo(p, pts, aes, rescale) ==
    IF BitAnd(pointsKinds(pts, aes), kindContinuous) = 0
    THEN [scale |-> NilScale, lo |-> FloatZero, hi |-> FloatZero, label |-> "",
          err |-> "data must be numeric"]
    ELSE LET b == boundsFrom(pts, aes, 1, FloatZero, FloatZero)
             projection == p.aes[aes]
         IN  IF Len(pts) = 0 \/ ~projection.dv
             THEN [scale |-> IdentityScale, lo |-> b.lo, hi |-> b.hi,
                   label |-> ProjectionString(projection), err |-> ""]
             ELSE LET unitNames == pointsUnits(p, pts)
                      cls == IF Len(unitNames) = 1 THEN ClassOf(unitNames[1]) ELSE "Decimal"
                      scaler == CommonScale(b.lo, cls)
                      prefix == IF rescale THEN scaler.Prefix ELSE ""
                  IN  [scale |-> IF rescale THEN DivScale(scaler.Factor) ELSE IdentityScale,
                       lo |-> b.lo, hi |-> b.hi,
                       label |-> Join([i \in 1 .. Len(unitNames) |-> prefix \o unitNames[i]],
                                      ", "),
                       err |-> ""]

\* Plot.continuousScale(pts, aes, rescale): scale, lo, hi, label, err
continuousScale(p, pts, aes, rescale) ==
    IF BitAnd(pointsKinds(pts, aes), kindContinuous) = 0
    THEN [scale |-> NilScale, lo |-> FloatZero, hi |-> FloatZero, label |-> "",
          err |-> "data must be numeric"]
    ELSE LET b == boundsFrom(pts, aes, 1, FloatZero, FloatZero)
             projection == p.aes[aes]
         IN  IF Len(pts) = 0 \/ ~projection.dv
             THEN [scale |-> IdentityScale, lo |-> b.lo, hi |-> b.hi,
                   label |-> ProjectionString(projection), err |-> ""]
             ELSE LET unitNames == pointsUnits(p, pts)
                      cls == IF Len(unitNames) = 1 THEN ClassOf(unitNames[1]) ELSE "Decimal"
                      scaler == CommonScale(b.hi, cls)
                      prefix == IF rescale THEN scaler.Prefix ELSE ""
                  IN  [scale |-> IF rescale THEN DivScale(scaler.Factor) ELSE IdentityScale,
                       lo |-> b.lo, hi |-> b.hi,
                       label |-> Join([i \in 1 .. Len(unitNames) |-> prefix \o unitNames[i]],
                                      ", "),
                       err |-> ""]

(***************************************************************************)
(* The transforms and the scale derivations, applied to the collection of  *)
(* a Plot fed records of one or two units.                                 *)
(***************************************************************************)
\* most points the collection may hold after an Add, under SpecF
MaxPointsF == 3

MetricValsF == {1, 2000}

RecordsF ==
    {r \in [f : FieldVals, units : UnitLists, metric : [Units -> MetricValsF \cup {Absent}]] :
        \/ r.units = <<"ns">> /\ r.metric["ns"] # Absent /\ r.metric["by"] = Absent
        \/ r.units = <<"ns", "by">> /\ r.f = "2" /\ r.metric["ns"] \in {1, Absent}
             /\ r.metric["by"] = 2000}

AddF(rec) == AddWithin(rec, MaxPointsF)

\* transformSummarize(p.points, aes, confidence), its result kept in last.ret
ApplySummarize(aes) ==
    /\ pc = "adding"
    /\ LET r == transformSummarize(points, aes, heap + 1)
       IN  /\ err' = r.err
           /\ fault' = r.fault
           /\ pc' = IF r.fault # "" THEN "aborted" ELSE "derived"
           /\ last' = [NoLast EXCEPT !.op = "transformSummarize", !.aes = aes,
                                     !.n = Len(points), !.ret = r.out]
    /\ heap' = heap + 1
    /\ prev' = points
    /\ UNCHANGED <<config, plot, points, main>>

\* transformCompare(p.points, AesColor, aesRatio), its result kept in
\* last.ret; the slice it is given is p.points
ApplyCompare(aesRatio) ==
    /\ pc = "adding"
    /\ \E sorted \in SortOutcomes(points, AesColor, 1 .. Len(points)) :
          LET r == transformCompare(points, AesColor, aesRatio, sorted)
          IN  /\ points' = r.pts
              /\ err' = r.err
              /\ fault' = r.fault
              /\ pc' = IF r.fault # "" THEN "aborted" ELSE "derived"
              /\ last' = [NoLast EXCEPT !.op = "transformCompare", !.aes = aesRatio,
                                        !.n = Len(points), !.base = r.base,
                                        !.ret = r.out]
    /\ prev' = points
    /\ UNCHANGED <<config, plot, heap, main>>

\* ordScale(p.points, aes), the scale kept in last.ret
OrdinalScale(aes) ==
    /\ pc = "adding"
    /\ IF sortedValuesFaults(valsOf(points, aes))
       THEN /\ fault' = "incomparable kinds"
            /\ pc' = "aborted"
            /\ last' = [NoLast EXCEPT !.op = "ordScale", !.aes = aes]
       ELSE \E sorted \in sortedValues(valsOf(points, aes)) :
              /\ fault' = ""
              /\ pc' = "scaled"
              /\ last' = [NoLast EXCEPT !.op = "ordScale", !.aes = aes,
                                        !.ret = ordScale(points, aes, sorted)]
    /\ prev' = points
    /\ UNCHANGED <<config, plot, points, err, heap, main>>

\* the points a scale is queried with: those of the collection and those
\* another record would have given
QueryPoints ==
    Elems(points) \cup UNION {Elems(AddOf(plot, rec)) : rec \in RecordsF}

\* scale(pt), for the scale the last ordScale returned
ScaleLookup ==
    /\ pc = "scaled"
    /\ \E pt \in QueryPoints :
          LET r == scaleOf(last.ret, pt)
          IN  /\ fault' = r.fault
              /\ pc' = IF r.fault # "" THEN "aborted" ELSE "looked"
              /\ last' = [last EXCEPT !.op = "scale", !.args = pt, !.n = r.idx]
    /\ UNCHANGED <<config, plot, points, err, prev, heap, main>>

\* p.continuousScale(p.points, aes, rescale), its results kept in last.ret
ContinuousScale(aes, rescale) ==
    /\ pc = "adding"
    /\ LET r == continuousScale(plot, points, aes, rescale)
       IN  /\ err' = r.err
           /\ last' = [NoLast EXCEPT !.op = "continuousScale", !.aes = aes,
                                     !.args = rescale, !.ret = r]
    /\ pc' = "derived"
    /\ prev' = points
    /\ UNCHANGED <<config, plot, points, fault, heap, main>>

NextF ==
    \/ NewPlot
    \/ \E rec \in RecordsF : AddF(rec)
    \/ \E aes \in Aes : ApplySummarize(aes)
    \/ \E aesRatio \in Aes : ApplyCompare(aesRatio)
    \/ \E aes \in Aes : OrdinalScale(aes)
    \/ ScaleLookup
    \/ \E aes \in Aes, rescale \in BOOLEAN : ContinuousScale(aes, rescale)

SpecF == InitT /\ [][NextF]_vars

(***************************************************************************)
(* Properties of the transforms' errors and of the scales.                 *)
(***************************************************************************)
\* some point of pts holds a Value at aes without the kind
SomeWithout(pts, aes, kind) ==
    \E i \in 1 .. Len(pts) : BitAnd(pts[i][aes].kinds, kind) = 0

\* C11: when some point's Value at the required aesthetic is not Continuous
\* (and, for Summarize, not all points are Summary there), Summarize and
\* Compare return a numeric-data error and no result, and the Plot's
\* collection is what it was before the call.
C11_NumericErrorKeepsPoints ==
    /\ (/\ last.op = "transformSummarize"
        /\ SomeWithout(prev, last.aes, kindContinuous)
        /\ SomeWithout(prev, last.aes, kindSummary)) =>
           /\ err = "transformSummarize: data must be numeric"
           /\ fault = ""
           /\ last.ret = <<>>
           /\ points = prev
    /\ (/\ last.op = "transformCompare"
        /\ SomeWithout(prev, last.aes, kindContinuous)) =>
           /\ err = "transformCompare: data must be numeric"
           /\ fault = ""
           /\ last.ret = <<>>
           /\ points = prev

\* a Compare has refused two points that were not in the order of their colours
C11_Witness ==
    /\ last.op = "transformCompare"
    /\ err # ""
    /\ Len(prev) >= 2
    /\ compare(prev[2][AesColor], prev[1][AesColor]) < 0

\* the collections s and t hold the same points as often
SameBag(s, t) ==
    /\ Len(s) = Len(t)
    /\ \A x \in Elems(s) \cup Elems(t) :
          Cardinality({i \in 1 .. Len(s) : s[i] = x})
            = Cardinality({i \in 1 .. Len(t) : t[i] = x})

\* the last call was a transform or a scale derivation that returned
Derived ==
    /\ last.op \in {"transformSummarize", "transformCompare", "ordScale", "continuousScale"}
    /\ fault = ""

C13_OrdinalScaleDense ==
    (last.op = "ordScale" /\ fault = "") =>
        LET sc == last.ret
            V == valsOf(prev, last.aes)
        IN  /\ sc.bound = Cardinality(V)
            /\ DOMAIN sc.ord = V
            /\ {sc.ord[v] : v \in V} = 0 .. sc.bound - 1
            /\ \A a, b \in V : a # b => sc.ord[a] # sc.ord[b]
            /\ \A a, b \in V : compare(a, b) < 0 => sc.ord[a] < sc.ord[b]
            /\ \A i \in 1 .. Len(prev) : scaleOf(sc, prev[i]).idx = sc.ord[prev[i][last.aes]]

\* an ordinal scale has been built over three points of two distinct Values
C13_Witness ==
    /\ last.op = "ordScale"
    /\ fault = ""
    /\ Len(prev) = 3
    /\ last.ret.bound = 2

\* C14: a scale queried with a point whose Value did not occur in the
\* collection it was built from aborts and returns no index; queried with a
\* point of that collection it returns an index.
C14_ScaleLookupFaults ==
    last.op = "scale" =>
        /\ last.args[last.aes] \notin valsOf(points, last.aes) =>
              fault = "value has unmapped key" /\ pc = "aborted" /\ last.n = -1
        /\ last.args \in Elems(points) =>
              fault = "" /\ pc = "looked" /\ last.n \in 0 .. last.ret.bound - 1

\* a scale built over a non-empty collection has been queried with a Value
\* that was not in it
C14_Witness ==
    /\ last.op = "scale"
    /\ Len(points) >= 1
    /\ last.args[last.aes] \notin valsOf(points, last.aes)
    /\ fault # ""

\* the magnitudes a scale closure is tried on
Magnitudes == {FloatOf(0), FloatOf(1), FloatOf(3), FloatOf(2000)}

\* the scale closure is set and returns what it is given
IsIdentity(scale) ==
    scale.set /\ \A v \in Magnitudes : Scaled(scale, v) = v

\* ContinuousScale has returned without an error
Scaled15 == last.op = "continuousScale" /\ err = ""

\* C15 as claimed: ContinuousScale returns the identity and the projection's
\* textual form as label whenever aes is not the dependent-variable
\* aesthetic, and the identity and the unit names joined without prefix
\* whenever rescale is false on the dependent-variable aesthetic.
C15_IdentityScale ==
    Scaled15 =>
        /\ last.aes # plot.dvAes =>
              /\ IsIdentity(last.ret.scale)
              /\ last.ret.label = ProjectionString(plot.aes[last.aes])
        /\ (last.aes = plot.dvAes /\ ~last.args) =>
              /\ IsIdentity(last.ret.scale)
              /\ last.ret.label = Join(pointsUnits(plot, prev), ", ")

\* C15, amended: ContinuousScale returns the identity and the projection's
\* textual form as label whenever aes is not the dependent-variable
\* aesthetic or the collection is empty; on the dependent-variable aesthetic
\* of a non-empty collection with rescale false it returns the identity and
\* the distinct unit names joined without prefix.
C15_IdentityScaleNonEmpty ==
    Scaled15 =>
        /\ (last.aes # plot.dvAes \/ Len(prev) = 0) =>
              /\ IsIdentity(last.ret.scale)
              /\ last.ret.label = ProjectionString(plot.aes[last.aes])
        /\ (last.aes = plot.dvAes /\ ~last.args /\ Len(prev) >= 1) =>
              /\ IsIdentity(last.ret.scale)
              /\ last.ret.label = Join(pointsUnits(plot, prev), ", ")

\* ContinuousScale has labelled the dependent variable of points of two
\* units without rescaling
C15_Witness ==
    /\ Scaled15
    /\ Len(prev) >= 2
    /\ last.aes = plot.dvAes
    /\ ~last.args
    /\ last.ret.label = "ns, by"

\* the values at aes across pts
ValuesAt(pts, aes) == {pts[i][aes].val : i \in 1 .. Len(pts)}

\* C16: for a non-empty all-Continuous collection ContinuousScale returns as
\* lo the least and as hi the greatest of the aes values; with rescale on the
\* dependent-variable aesthetic the divisor and the prefix are those the
\* unit-scaling provider gives for hi alone and the class of the unit names.
C16_BoundsAndDivisorFromHi ==
    (Scaled15 /\ Len(prev) >= 1) =>
        LET r == last.ret
            V == ValuesAt(prev, last.aes)
            names == pointsUnits(plot, prev)
            cls == IF Len(names) = 1 THEN ClassOf(names[1]) ELSE "Decimal"
        IN  /\ r.lo \in V /\ \A v \in V : ~FloatLess(v, r.lo)
            /\ r.hi \in V /\ \A v \in V : ~FloatLess(r.hi, v)
            /\ (last.aes = plot.dvAes /\ last.args) =>
                  /\ r.scale = DivScale(CommonScale(r.hi, cls).Factor)
                  /\ r.label = Join([i \in 1 .. Len(names) |->
                                        CommonScale(r.hi, cls).Prefix \o names[i]], ", ")

\* ContinuousScale has rescaled a dependent variable whose least value is
\* below the divisor its greatest value calls for
C16_Witness ==
    /\ Scaled15
    /\ last.aes = plot.dvAes
    /\ last.args
    /\ Len(prev) >= 2
    /\ FloatLess(last.ret.lo, last.ret.scale.factor)
    /\ FloatLess(FloatOf(1), last.ret.scale.factor)

(***************************************************************************)
(* value.compare, applied to Values of every mix of kinds.                 *)
(***************************************************************************)
\* the kind sets of the Values compared
KindsV == {0, 1, 2, 3, 4, 6, 8, 9, 10, 11}

KeysV == {<<"A">>, <<"2">>}

\* Values of those kinds: a key when Discrete, a number when Continuous, a
\* denominator when Ratio and Discrete
ValuesV ==
    {v \in [kinds : KindsV, key : KeysV \cup {NilKey}, val : {FloatZero, FloatOf(1), FloatOf(2)},
            summary : {NoSummary}, denom : KeysV \cup {NilKey}] :
        /\ v.key = NilKey <=> BitAnd(v.kinds, kindDiscrete) = 0
        /\ v.val = FloatZero <=> BitAnd(v.kinds, kindContinuous) = 0
        /\ v.denom = NilKey <=> BitAnd(v.kinds, BitOr(kindDiscrete, kindRatio)) # 9}

InitV ==
    /\ config = [a \in Aes |-> ZeroProjection]
    /\ plot = NoPlot
    /\ points = <<>>
    /\ err = ""
    /\ fault = ""
    /\ pc = "values"
    /\ \E a, b, c \in ValuesV : last = [NoLast EXCEPT !.args = <<a, b, c>>]
    /\ prev = <<>>
    /\ heap = 0
    /\ main = NoMain

\* a.compare(a), a.compare(b), b.compare(a), b.compare(c) and a.compare(c)
CompareValues ==
    /\ pc = "values"
    /\ LET a == last.args[1]
           b == last.args[2]
           c == last.args[3]
           r == [aa |-> compare(a, a), ab |-> compare(a, b), ba |-> compare(b, a),
                 bc |-> compare(b, c), ac |-> compare(a, c)]
       IN  /\ last' = [last EXCEPT !.op = "compare", !.ret = r]
           /\ fault' = IF Incomparable \in {r.aa, r.ab, r.ba, r.bc, r.ac}
                       THEN "incomparable kinds" ELSE ""
    /\ pc' = "compared"
    /\ UNCHANGED <<config, plot, points, err, prev, heap, main>>

NextV == CompareValues

SpecV == InitV /\ [][NextV]_vars

(***************************************************************************)
(* Properties of value.compare.                                            *)
(***************************************************************************)
\* C17 as claimed: compare(v, v) returns 0 for every Value, whatever its
\* kind bits, also with none, only Summary or only Ratio.
C17_CompareReflexive ==
    last.op = "compare" => last.ret.aa = 0

\* C17, amended: compare(v, v) returns 0 for every Value that is Discrete or
\* Continuous; for a Value that is neither (no kind bit, only Summary, only
\* Ratio) it aborts with incomparable kinds.
C17_CompareReflexiveOnKinded ==
    last.op = "compare" =>
        LET v == last.args[1]
        IN  IF BitAnd(v.kinds, BitOr(kindDiscrete, kindContinuous)) # 0
            THEN last.ret.aa = 0
            ELSE last.ret.aa = Incomparable /\ fault = "incomparable kinds"

\* a Ratio and Discrete Value with a denominator has been compared with itself
C17_Witness ==
    /\ last.op = "compare"
    /\ last.args[1].kinds = BitOr(kindDiscrete, kindRatio)
    /\ last.args[1].denom # NilKey
    /\ last.ret.aa = 0

\* the sign of a comparison
Sign(c) == IF c < 0 THEN -1 ELSE IF c > 0 THEN 1 ELSE 0

\* C18: compare(a, b) and compare(b, a) have opposite signs, and
\* compare(a, b) < 0 with compare(b, c) < 0 implies compare(a, c) < 0, for
\* Values of mixed kinds that compare can order.
C18_CompareConsistent ==
    (last.op = "compare" /\ fault = "") =>
        /\ Sign(last.ret.ab) = -Sign(last.ret.ba)
        /\ (last.ret.ab < 0 /\ last.ret.bc < 0) => last.ret.ac < 0

(***************************************************************************)
(* The renderer: gnuplotter.plot and gnuplotter.onePlot.  The script is a  *)
(* sequence of lines; a line is its command with the strings, numbers and  *)
(* keys formatted into it.                                                 *)
(***************************************************************************)
Line(cmd, strs, nums, keys) == [cmd |-> cmd, strs |-> strs, nums |-> nums, keys |-> keys]

\* value.StringValues(), as the parts of the text
StringValues(v) ==
    IF BitAnd(v.kinds, kindDiscrete) # 0
    THEN IF BitAnd(v.kinds, kindRatio) # 0
         THEN [strs |-> <<" vs ">>, nums |-> <<>>, keys |-> <<v.key, v.denom>>]
         ELSE [strs |-> <<>>, nums |-> <<>>, keys |-> <<v.key>>]
    ELSE [strs |-> <<>>, nums |-> <<v.val>>, keys |-> <<>>]

\* the comparison of plot's sort: column, row, colour, then X numerically
renderCompare(a, b) ==
    LET c1 == compare(a[AesCol], b[AesCol])
        c2 == compare(a[AesRow], b[AesRow])
        c3 == compare(a[AesColor], b[AesColor])
    IN  IF c1 # 0 THEN c1
        ELSE IF c2 # 0 THEN c2
        ELSE IF c3 # 0 THEN c3
        ELSE CmpCompare(a[AesX].val, b[AesX].val)

\* the comparisons of plot's sort panic
renderSortFaults(pts) ==
    \E i, j \in 1 .. Len(pts) : i # j /\ renderCompare(pts[i], pts[j]) = Incomparable

\* no element of pts is out of order
renderSorted(pts) ==
    \A i \in 2 .. Len(pts) : renderCompare(pts[i], pts[i - 1]) >= 0

RECURSIVE renderOrders(_, _)
renderOrders(pts, idx) ==
    IF idx = {} THEN {<<>>}
    ELSE UNION {
           {<<pts[i]>> \o rest : rest \in renderOrders(pts, idx \ {i})} :
             i \in {j \in idx :
                      /\ \A k \in idx : renderCompare(pts[k], pts[j]) >= 0
                      /\ \A k \in idx : pts[k] = pts[j] => k >= j}}

renderSort_unstable(pts) == renderOrders(pts, 1 .. Len(pts))

\* The orders plot's slices.SortFunc may leave pts in: a slice with no
\* element out of order is left as it is (the sort moves nothing); otherwise
\* elements that compare equal may come out in any order.
renderSort(pts) ==
    IF renderSorted(pts) THEN {pts} ELSE renderOrders(pts, 1 .. Len(pts))

\* the loop of sliceBy from (0-based) index i on: the runs of equal grouper
\* values g, as [val, pts]
RECURSIVE sliceLoop(_, _, _, _, _)
sliceLoop(s, g, i, start, startVal) ==
    IF i >= Len(s) THEN <<[val |-> startVal, pts |-> SubSeq(s, start + 1, Len(s))]>>
    ELSE IF g[i + 1] # startVal
         THEN <<[val |-> startVal, pts |-> SubSeq(s, start + 1, i)]>>
                \o sliceLoop(s, g, i + 1, i, g[i + 1])
         ELSE sliceLoop(s, g, i + 1, start, startVal)

\* sliceBy(s, grouper, doGroup): the calls of doGroup, in order
sliceBy(s, g) == IF Len(s) = 0 THEN <<>> ELSE sliceLoop(s, g, 1, 0, g[1])

\* UnitMetadataMap.GetBetter(unit), without metadata: lower is better
GetBetter(unit) == -1

\* the "same better direction" loop of onePlot from position i on
RECURSIVE betterFrom(_, _, _)
betterFrom(names, i, better) ==
    IF i > Len(names) THEN better
    ELSE IF i = 1 THEN betterFrom(names, i + 1, GetBetter(names[1]))
    ELSE IF better # GetBetter(names[i]) THEN 0
    ELSE betterFrom(names, i + 1, better)

\* setFormat(axis, aes) of onePlot: the lines written to code and to reset,
\* the label, and whether values are shown as a percent delta
setFormat(p, pts, axis, aes) ==
    LET kinds == pointsKinds(pts, aes)
        cs == continuousScale(p, pts, aes, FALSE)
        za == IF aes = AesX THEN "y" ELSE "x"
    IN  IF BitAnd(kinds, kindRatio) # 0
        THEN [code |-> << Line("set format percent", <<axis>>, <<>>, <<>>),
                          Line("set range [*<0:0<*]", <<axis>>, <<>>, <<>>),
                          Line("set zeroaxis dt 2", <<za>>, <<>>, <<>>) >>,
              reset |-> << Line("unset zeroaxis", <<za>>, <<>>, <<>>) >>,
              label |-> "delta " \o cs.label,
              delta |-> TRUE,
              scale |-> cs.scale]
        ELSE [code |-> << Line("set format %.0s%c", <<axis>>, <<>>, <<>>) >>,
              reset |-> <<>>,
              label |-> cs.label,
              delta |-> FALSE,
              scale |-> cs.scale]

\* the scale setFormat returns, applied to x
formatScale(f, x) ==
    IF f.delta THEN FloatMul(FloatAdd(x, FloatOf(-1)), FloatOf(100)) ELSE Scaled(f.scale, x)

\* the concatenation of the sequences of ss
RECURSIVE Flatten(_)
Flatten(ss) == IF ss = <<>> THEN <<>> ELSE Head(ss) \o Flatten(Tail(ss))

\* math.IsInf(x, 0)
IsInf(x) == x[2] = 0 /\ x[1] # 0

layerPos == 0
layerNeg == 1
layerRange == 2
layerCenter == 3
maxLayers == 4

\* the body of the function onePlot hands to sliceBy, for one layer and one
\* run of points of one colour: the plot argument and the data it emits
\* (none when it returns early), and whether the run has a range
layerOf(layer, run, colorScale, fx, fy, ratioPos, ratioNeg) ==
    LET pts == run.pts
        colorIdx == scaleOf(colorScale, pts[1]).idx + 1
        finite == SelectSeq(pts, LAMBDA pt : ~IsInf(pt[AesY].summary.lo))
        haveRange == layer = layerRange /\ finite # <<>>
        sv == StringValues(run.val)
        center == [i \in 1 .. Len(pts) |->
                      Line("%g %g", <<>>,
                           <<formatScale(fx, pts[i][AesX].val),
                             formatScale(fy, pts[i][AesY].val)>>, <<>>)]
        none == [args |-> <<>>, data |-> <<>>, haveRange |-> haveRange,
                 fault |-> scaleOf(colorScale, pts[1]).fault]
    IN  IF layer = layerRange
        THEN IF ~haveRange THEN none
             ELSE [none EXCEPT
                     !.args = <<Line("'-' using 1:2:3 with filledcurves", <<>>,
                                     <<FloatOf(colorIdx)>>, <<>>)>>,
                     !.data = [i \in 1 .. Len(finite) |->
                                  Line("%g %g %g", <<>>,
                                       <<formatScale(fx, finite[i][AesX].val),
                                         formatScale(fy, finite[i][AesY].summary.lo),
                                         formatScale(fy, finite[i][AesY].summary.hi)>>, <<>>)]
                              \o <<Line("e", <<>>, <<>>, <<>>)>>]
        ELSE IF layer = layerPos /\ ratioPos = "" THEN none
        ELSE IF layer = layerNeg /\ ratioNeg = "" THEN none
        ELSE [none EXCEPT
                !.args = IF layer = layerPos
                         THEN <<Line("'-' using 1:2 with filledcurves below", <<ratioPos>>,
                                     <<>>, <<>>)>>
                         ELSE IF layer = layerNeg
                         THEN <<Line("'-' using 1:2 with filledcurves above", <<ratioNeg>>,
                                     <<>>, <<>>)>>
                         ELSE <<Line("'-' using 1:2 with lp title", sv.strs,
                                     <<FloatOf(colorIdx)>> \o sv.nums, sv.keys)>>,
                !.data = center \o <<Line("e", <<>>, <<>>, <<>>)>>]

\* the colours of the areas above and below 1 of a plot of ratios
ratioColors(p, pts) ==
    LET better == betterFrom(pointsUnits(p, pts), 1, 0)
        ratio == p.dvAes = AesY /\ BitAnd(pointsKinds(pts, AesY), kindRatio) # 0
    IN  [pos |-> IF ratio /\ better > 0 THEN "red"
                 ELSE IF ratio /\ better < 0 THEN "green" ELSE "",
         neg |-> IF ratio /\ better > 0 THEN "green"
                 ELSE IF ratio /\ better < 0 THEN "red" ELSE ""]

\* the calls of the function onePlot hands to sliceBy: one per layer and run
\* of one colour, layer by layer
layerCalls(runs, colorScale, fx, fy, colors) ==
    [k \in 1 .. maxLayers * Len(runs) |->
        layerOf((k - 1) \div Len(runs), runs[((k - 1) % Len(runs)) + 1],
                colorScale, fx, fy, colors.pos, colors.neg)]

\* the plot arguments of onePlot, the legend entry of the range included
plotArgsOf(calls) ==
    Flatten([k \in 1 .. Len(calls) |-> calls[k].args])
      \o (IF \E k \in 1 .. Len(calls) : calls[k].haveRange
          THEN <<Line("1/0 with filledcurves title confidence", <<>>, <<FloatOf(95)>>, <<>>)>>
          ELSE <<>>)

\* what onePlot writes once the layers are built
onePlotCode(fx, fy, calls, plotArgs) ==
    LET faults == SelectSeq(calls, LAMBDA c : c.fault # "")
    IN  [code |-> fx.code \o fy.code
                    \o << Line("set xlabel", <<fx.label>>, <<>>, <<>>),
                          Line("set ylabel", <<fy.label>>, <<>>, <<>>),
                          Line("plot", <<>>, <<FloatOf(Len(plotArgs))>>, <<>>) >>
                    \o plotArgs
                    \o Flatten([k \in 1 .. Len(calls) |-> calls[k].data])
                    \o fx.reset \o fy.reset,
         fault |-> IF faults = <<>> THEN "" ELSE faults[1].fault]

\* onePlot from the layers on, pts being the summarized points
onePlotLayers(fx, fy, calls) == onePlotCode(fx, fy, calls, plotArgsOf(calls))

\* onePlot after setFormat, sm being what transformSummarize returned
onePlotData(p, fx, fy, pts, colorScale) ==
    onePlotLayers(fx, fy,
                  layerCalls(sliceBy(pts, [i \in 1 .. Len(pts) |-> pts[i][AesColor]]),
                             colorScale, fx, fy, ratioColors(p, pts)))

\* the points onePlot goes on with after transformSummarize
summarized(sm) == IF sm.err # "" THEN <<>> ELSE sm.out

\* gnuplotter.onePlot(pts): the lines it writes, and the fault of a panic
onePlot(p, pts, colorScale, gen) ==
    IF Len(pts) = 0
    THEN [code |-> <<Line("set multiplot next", <<>>, <<>>, <<>>)>>, fault |-> ""]
    ELSE onePlotData(p, setFormat(p, pts, "x", AesX), setFormat(p, pts, "y", AesY),
                     summarized(transformSummarize(pts, AesY, gen)), colorScale)

\* what plot returns before it writes anything
NoScript(pts, e, f) == [code |-> <<>>, err |-> e, fault |-> f, pts |-> pts]

\* one cell of the layout: its row label and column title, the plot that
\* onePlot wrote (one), and the lines that undo the label and the title
cellOf(cpts, multiplot, row, col, one) ==
    [code |->
        (IF multiplot /\ col = 0 /\ Len(cpts) > 0
         THEN <<Line("set label 1", StringValues(cpts[1][AesRow]).strs,
                     StringValues(cpts[1][AesRow]).nums,
                     StringValues(cpts[1][AesRow]).keys)>>
         ELSE <<>>)
        \o (IF multiplot /\ row = 0 /\ Len(cpts) > 0
            THEN <<Line("set title", StringValues(cpts[1][AesCol]).strs,
                        StringValues(cpts[1][AesCol]).nums,
                        StringValues(cpts[1][AesCol]).keys)>>
            ELSE <<>>)
        \o one.code
        \o << Line("unset label 1", <<>>, <<>>, <<>>),
              Line("unset title", <<>>, <<>>, <<>>) >>,
     fault |-> one.fault]

\* the cells of the layout, column by column
cellsOf(p, plots, nRows, nCols, colorScale) ==
    [k \in 1 .. nCols * nRows |->
        cellOf(MapGet(plots, <<(k - 1) % nRows, (k - 1) \div nRows>>),
               nRows > 1 \/ nCols > 1, (k - 1) % nRows, (k - 1) \div nRows,
               onePlot(p, MapGet(plots, <<(k - 1) % nRows, (k - 1) \div nRows>>),
                       colorScale, k))]

\* the script of plot: the terminal, the layout and the cells
scriptOf(term, nRows, nCols, cells, sorted) ==
    LET faults == SelectSeq(cells, LAMBDA c : c.fault # "")
    IN  IF faults # <<>> THEN NoScript(sorted, "", faults[1].fault)
        ELSE [code |-> (IF term = "png"
                        THEN <<Line("set terminal pngcairo size", <<>>,
                                    <<FloatOf(nCols * 640), FloatOf(nRows * 480)>>, <<>>)>>
                        ELSE <<>>)
                       \o (IF nRows > 1 \/ nCols > 1
                           THEN <<Line("set multiplot layout", <<>>,
                                       <<FloatOf(nRows), FloatOf(nCols)>>, <<>>)>>
                           ELSE <<>>)
                       \o Flatten([k \in 1 .. Len(cells) |-> cells[k].code])
                       \o (IF nRows > 1 \/ nCols > 1
                           THEN <<Line("unset multiplot", <<>>, <<>>, <<>>)>>
                           ELSE <<>>),
              err |-> "", fault |-> "", pts |-> sorted]

\* plot once the scales are derived and the points sorted
plotGrid(p, term, rowScale, colScale, colorScale, sorted) ==
    scriptOf(term, rowScale.bound, colScale.bound,
             cellsOf(p,
                     groupBy(sorted, [i \in 1 .. Len(sorted) |->
                                        <<scaleOf(rowScale, sorted[i]).idx,
                                          scaleOf(colScale, sorted[i]).idx>>]).out,
                     rowScale.bound, colScale.bound, colorScale),
             sorted)

\* the checks of plot that return before any scale is derived
renderEarly(pts) ==
    \/ Len(pts) = 0
    \/ BitAnd(pointsKinds(pts, AesX), kindContinuous) = 0
    \/ BitAnd(pointsKinds(pts, AesY), kindContinuous) = 0

\* a comparison of plot panics, in a scale's sort or in the sort of the points
renderFaults(pts) ==
    \/ \E aes \in {AesRow, AesCol, AesColor} : sortedValuesFaults(valsOf(pts, aes))
    \/ renderSortFaults(pts)

\* gnuplotter.plot(term), when sortedValues returns rows, cols and colors for
\* the three ordinal scales and the sort leaves the points in the order
\* sorted: the script, the error, the fault of a panic, and p.points as the
\* call leaves it
gnuplotterPlot(p, pts, term, rows, cols, colors, sorted) ==
    IF Len(pts) = 0 THEN NoScript(pts, "no data", "")
    ELSE IF BitAnd(pointsKinds(pts, AesX), kindContinuous) = 0
    THEN NoScript(pts, "non-numeric X data not supported", "")
    ELSE IF BitAnd(pointsKinds(pts, AesY), kindContinuous) = 0
    THEN NoScript(pts, "non-numeric Y data not supported", "")
    ELSE IF renderFaults(pts) THEN NoScript(pts, "", "incomparable kinds")
    ELSE plotGrid(p, term, ordScale(pts, AesRow, rows), ordScale(pts, AesCol, cols),
                  ordScale(pts, AesColor, colors), sorted)

(***************************************************************************)
(* Rendering: main's pipeline of Adds and TransformCompare, followed by    *)
(* two calls of Plot.Gnuplot on the same Plot.                             *)
(***************************************************************************)
Terms == {"", "png"}

MaxPointsR == 4

\* Configs with a numeric X: rows by unit; colours by unit; rows by unit and
\* colours by f; and one without X
ConfigsR ==
    { ConfigOf({AesY}, {AesRow}, {AesX}),
      ConfigOf({AesY}, {AesColor}, {AesX}),
      ConfigOf({AesY}, {AesRow}, {AesX, AesColor}),
      ConfigOf({AesY}, {AesRow}, {AesColor}) }

\* records whose field f is numeric, of one unit or of two
RecordsR ==
    {r \in [f : {"2", "10"}, units : UnitLists, metric : [Units -> MetricVals \cup {Absent}]] :
        \/ r.units = <<"ns">> /\ r.metric["ns"] # Absent /\ r.metric["by"] = Absent
        \/ r.units = <<"ns", "by">> /\ r.metric["ns"] = 1 /\ r.metric["by"] = 2}

InitR ==
    /\ config \in ConfigsR
    /\ plot = NoPlot
    /\ points = <<>>
    /\ err = ""
    /\ fault = ""
    /\ pc = "config"
    /\ last = NoLast
    /\ prev = <<>>
    /\ heap = 0
    /\ main = NoMain

AddR(rec) == AddWithin(rec, MaxPointsR)

\* what the sorts of plot may do to the points pts: the orders sortedValues
\* returns for the three scales and the order of the points (nothing is
\* sorted when plot returns or panics first)
renderChoices(pts) ==
    IF renderEarly(pts) \/ renderFaults(pts)
    THEN {[rows |-> <<>>, cols |-> <<>>, colors |-> <<>>, sorted |-> pts]}
    ELSE [rows : sortedValues(valsOf(pts, AesRow)),
          cols : sortedValues(valsOf(pts, AesCol)),
          colors : sortedValues(valsOf(pts, AesColor)),
          sorted : renderSort(pts)]

\* the state a call of Gnuplot leaves when plot returned r
GnuplotReturns(r, term, n) ==
    /\ points' = r.pts
    /\ err' = r.err
    /\ fault' = r.fault
    /\ pc' = IF r.fault # "" THEN "aborted" ELSE "rendered"
    /\ last' = [NoLast EXCEPT !.op = "Gnuplot", !.n = n, !.args = last.ret,
                              !.ret = [code |-> r.code, err |-> r.err, term |-> term]]
    /\ prev' = points
    /\ UNCHANGED <<config, plot, heap, main>>

\* Plot.Gnuplot(term, out): a fresh gnuplotter runs plot(term) on p.points
Gnuplot(term, n) ==
    \E c \in renderChoices(points) :
        GnuplotReturns(gnuplotterPlot(plot, points, term, c.rows, c.cols, c.colors,
                                      c.sorted),
                       term, n)

\* the first rendering of the finished Plot
Render ==
    /\ pc \in {"adding", "transforming"}
    /\ \E term \in Terms : Gnuplot(term, 1)

\* the same Plot rendered again, for the same terminal
RenderAgain ==
    /\ pc = "rendered"
    /\ last.op = "Gnuplot"
    /\ last.n = 1
    /\ Gnuplot(last.ret.term, 2)

NextR ==
    \/ NewPlot
    \/ \E rec \in RecordsR : AddR(rec)
    \/ TransformCompare
    \/ Render
    \/ RenderAgain

SpecR == InitR /\ [][NextR]_vars

\* C20: rendering the same finished Plot a second time produces the script
\* (and the error) the first rendering produced, and leaves the points as
\* the first rendering left them
C20_RenderTwiceSameScript ==
    (last.op = "Gnuplot" /\ last.n = 2 /\ fault = "")
        => /\ last.ret = last.args
           /\ points = prev

\* a second rendering of a Plot of three points or more that emitted the
\* script, data included, that the first rendering emitted
C20_Witness ==
    /\ last.op = "Gnuplot"
    /\ last.n = 2
    /\ fault = ""
    /\ Len(points) >= 3
    /\ \E i \in 1 .. Len(last.ret.code) : last.ret.code[i].cmd = "%g %g"
    /\ last.ret.code = last.args.code

\* C19: no run of NewPlot on a valid configuration, Adds, TransformCompare
\* and renderings reaches a panic (incomparable kinds, an unmapped key of an
\* ordinal scale, a non-continuous sample, an index or slice bound out of
\* range)
C19_NoFaultReachable == fault = ""

(***************************************************************************)
(* Properties of groupBy and of the points the transforms emit.            *)
(***************************************************************************)
\* the grouper values Summarize's groupBy saw, point by point
summarizeKeys == [i \in 1 .. Len(prev) |-> summarizeGrouper(prev[i], last.aes)]

\* C25: the groupBy call of Summarize partitions its input: the group of
\* each grouper value holds, in input order, every element with that value
\* (the last element and the only element of a one-element input included),
\* and the key list holds each distinct grouper value once, in first-seen
\* order.
C25_GroupByPartitions ==
    SummarizedContinuous =>
        LET g == groupBy(prev, summarizeKeys)
        IN  /\ \A i \in 1 .. Len(prev) :
                  MapGet(g.out, summarizeKeys[i])
                    = SelectSeq(prev, LAMBDA pt :
                                  summarizeGrouper(pt, last.aes) = summarizeKeys[i])
            /\ Elems(g.keys) = Elems(summarizeKeys)
            /\ Len(g.keys) = Cardinality(Elems(summarizeKeys))
            /\ \A j1, j2 \in 1 .. Len(g.keys) :
                  j1 < j2 =>
                      \E i1 \in 1 .. Len(prev) :
                          /\ summarizeKeys[i1] = g.keys[j1]
                          /\ \A i2 \in 1 .. i1 : summarizeKeys[i2] # g.keys[j2]

(***************************************************************************)
(* transformSummarize as a function of its input: collections as Add      *)
(* leaves them (no Ratio) and as transformCompare leaves them (Ratio at    *)
(* the Y and colour Values of every point).                                *)
(***************************************************************************)
MaxPointsS == 3

\* a point of row unit and colour key color whose Y Value is the number y
PointS(unit, color, y, kinds) ==
    [ZeroPoint EXCEPT
       ![AesX] = [ZeroValue EXCEPT !.kinds = kindDiscrete],
       ![AesCol] = [ZeroValue EXCEPT !.kinds = kindDiscrete],
       ![AesRow] = [ZeroValue EXCEPT !.kinds = kindDiscrete, !.key = <<unit>>],
       ![AesColor] = IF BitAnd(kinds, kindRatio) # 0
                     THEN [ZeroValue EXCEPT !.kinds = BitOr(kindDiscrete, kindRatio),
                                            !.key = <<color>>, !.denom = <<"2">>]
                     ELSE [ZeroValue EXCEPT !.kinds = kindDiscrete, !.key = <<color>>],
       ![AesY] = [ZeroValue EXCEPT !.kinds = kinds, !.val = y]]

\* the points of one collection: all from Add, or all from transformCompare
\* with the baseline colour 2
PointsS(ratio) ==
    IF ratio
    THEN {PointS(u, "A", y, BitOr(kindContinuous, kindRatio)) :
             u \in Units, y \in {FloatOf(2), FloatDiv(FloatOf(1), FloatOf(2))}}
    ELSE {PointS(u, c, FloatOf(y), kindContinuous) :
             u \in Units, c \in FieldVals, y \in MetricVals}

InitS ==
    /\ config = ConfigOf({AesY}, {AesRow}, {AesColor})
    /\ plot = NewPlotOf(config).plot
    /\ \E ratio \in BOOLEAN, n \in 1 .. MaxPointsS : points \in [1 .. n -> PointsS(ratio)]
    /\ err = ""
    /\ fault = ""
    /\ pc = "transforming"
    /\ last = NoLast
    /\ prev = <<>>
    /\ heap = 0
    /\ main = NoMain

NextS == Summarize(AesY)

SpecS == InitS /\ [][NextS]_vars

\* the index in Summarize's input of the first point of the group of pt
FirstOfGroup(pt) ==
    CHOOSE i \in 1 .. Len(prev) :
        /\ summarizeKeys[i] = summarizeGrouper(pt, last.aes)
        /\ \A i2 \in 1 .. i - 1 : summarizeKeys[i2] # summarizeGrouper(pt, last.aes)

PointValues == {points[i][a] : i \in 1 .. Len(points), a \in Aes}

\* C26: in every state reached by Adds, Summarize and Compare, every Value
\* of every point that is Summary is Continuous, every Value that is Ratio
\* is Continuous or Discrete, and after a Compare every Value that is both
\* Ratio and Discrete has the key of that Compare's baseline as denominator.
C26_KindImplications ==
    \A v \in PointValues :
        /\ BitAnd(v.kinds, kindSummary) # 0 => BitAnd(v.kinds, kindContinuous) # 0
        /\ BitAnd(v.kinds, kindRatio) # 0
              => BitAnd(v.kinds, BitOr(kindContinuous, kindDiscrete)) # 0
        /\ (/\ last.op = "Compare"
            /\ BitAnd(v.kinds, kindRatio) # 0
            /\ BitAnd(v.kinds, kindDiscrete) # 0) => v.denom = last.base.key

\* a Compare has emitted a point whose colour is Ratio and Discrete with a
\* denominator, and whose Y Value is then summarized
C26_Witness ==
    /\ last.op = "Compare"
    /\ err = ""
    /\ fault = ""
    /\ \E v \in PointValues :
          /\ v.kinds = BitOr(kindDiscrete, kindRatio)
          /\ v.denom # NilKey
    /\ \E v \in PointValues : v.kinds = BitOr(kindContinuous, kindRatio)

\* C27: TransformCompare on a Plot that shows neither .value nor .unit and
\* holds a point returns (an error or a result); it does not panic.
C27_CompareWithoutDVReturns ==
    (last.op = "Compare" /\ plot.dvAes = aesNone /\ plot.unitAes = aesNone /\ Len(prev) >= 1)
        => fault = ""

\* the stable sort of pts by their aes Values: points that compare equal
\* keep their order in pts
RECURSIVE StableSort(_, _, _)
StableSort(pts, aes, idx) ==
    IF idx = {} THEN <<>>
    ELSE LET i == CHOOSE j \in idx :
                      \A k \in idx :
                          \/ compare(pts[k][aes], pts[j][aes]) > 0
                          \/ compare(pts[k][aes], pts[j][aes]) = 0 /\ k >= j
         IN  <<pts[i]>> \o StableSort(pts, aes, idx \ {i})

\* C24: the points Compare returns are those, in that order, that a stable
\* sort of its input on the colour gives: input points of equal colour keep
\* their relative order, so that the output does not depend on how the sort
\* breaks ties.
C24_CompareOrderStable ==
    Compared =>
        points = transformCompare(prev, AesColor, plot.dvAes,
                                  StableSort(prev, AesColor, 1 .. Len(prev))).out

(***************************************************************************)
(* benchplot (main.go): the -log-scale and -transform options are parsed,  *)
(* the Plot is constructed, the records of the input are added, the        *)
(* transforms are applied and the Plot is rendered to benchplot.png.       *)
(* No -filter and no -units option is given, so every record parsed is     *)
(* added.                                                                  *)
(***************************************************************************)
\* most points the collection may hold after an Add, under SpecM
MaxPointsM == 3
\* most options in the -log-scale list and in the -transform list
MaxOptsM == 2

\* Aes.Name(): the short name of aesthetic a
Name(a) ==
    IF a = AesX THEN "x"
    ELSE IF a = AesY THEN "y"
    ELSE IF a = AesColor THEN "color"
    ELSE IF a = AesRow THEN "row"
    ELSE IF a = AesCol THEN "col"
    ELSE "Aes(?)"

\* AesFromName(name): the aesthetic of that name and whether there is one
\* (a miss of the map gives the zero Aes)
AesFromName(name) ==
    IF \E a \in Aes : Name(a) = name
    THEN [aes |-> CHOOSE a \in Aes : Name(a) = name, ok |-> TRUE]
    ELSE [aes |-> 0, ok |-> FALSE]

\* strconv.ParseInt(s, 10, 0) on the base strings of the model
ParseInt(s) ==
    IF s = "2" THEN [val |-> 2, ok |-> TRUE]
    ELSE IF s = "10" THEN [val |-> 10, ok |-> TRUE]
    ELSE [val |-> 0, ok |-> FALSE]

\* the names of transformOpts: compare is the only transform listed
transformOpts == {"compare"}

\* the loop over the options of -log-scale from option i on, ls being
\* config's log scales so far: the error (empty: none) and the log scales
RECURSIVE parseLogScale(_, _, _)
parseLogScale(opts, i, ls) ==
    IF i > Len(opts) THEN [err |-> "", logScale |-> ls]
    ELSE LET opt == opts[i]
             a == AesFromName(opt.name)
             base == ParseInt(opt.baseStr)
         IN  IF ~a.ok THEN [err |-> "unknown option in -log-scale", logScale |-> ls]
             ELSE IF opt.hasBase /\ ~base.ok
             THEN [err |-> "bad base in -log-scale", logScale |-> ls]
             ELSE parseLogScale(opts, i + 1,
                                [ls EXCEPT ![a.aes] = IF opt.hasBase THEN base.val ELSE 10])

RECURSIVE parseTransforms_skipUnknown(_, _, _)
parseTransforms_skipUnknown(opts, i, ts) ==
    IF i > Len(opts) THEN [err |-> "", transforms |-> ts]
    ELSE parseTransforms_skipUnknown(opts, i + 1,
             IF opts[i] \in transformOpts THEN Append(ts, opts[i]) ELSE ts)

\* the loop over the names of -transform from name i on, ts being the
\* transforms listed so far: the error (empty: none) and the transforms
RECURSIVE parseTransforms(_, _, _)
parseTransforms(opts, i, ts) ==
    IF i > Len(opts) THEN [err |-> "", transforms |-> ts]
    ELSE IF opts[i] \notin transformOpts
    THEN [err |-> "unknown transform", transforms |-> ts]
    ELSE parseTransforms(opts, i + 1, Append(ts, opts[i]))

transformsLeft_butLast(ts, done) == done < Len(ts) - 1

\* the loop over transforms has a transform left when done of them ran
transformsLeft(ts, done) == done < Len(ts)

\* the lists of at most MaxOptsM elements of S
OptionLists(S) == UNION {[1 .. k -> S] : k \in 0 .. MaxOptsM}

\* options of -log-scale as strings.Cut splits them: x, y:2, y:A and z
LogScaleOpts ==
    { [name |-> "x", hasBase |-> FALSE, baseStr |-> ""],
      [name |-> "y", hasBase |-> TRUE, baseStr |-> "2"],
      [name |-> "y", hasBase |-> TRUE, baseStr |-> "A"],
      [name |-> "z", hasBase |-> FALSE, baseStr |-> ""] }

\* names given to -transform
TransformNames == {"compare", "summarize"}

\* the bindings the projection options give: Y the value with rows by unit
\* and X or the colour by f, and one that NewPlot rejects
ConfigsM ==
    { ConfigOf({AesY}, {AesRow}, {AesX}),
      ConfigOf({AesY}, {AesRow}, {AesColor}),
      ConfigOf({AesY}, {}, {AesColor}) }

\* the projections are bound (SetDV, SetIV); the options are not parsed yet
InitM ==
    /\ config \in ConfigsM
    /\ plot = NoPlot
    /\ points = <<>>
    /\ err = ""
    /\ fault = ""
    /\ pc = "log-scale"
    /\ last = NoLast
    /\ prev = <<>>
    /\ heap = 0
    /\ main \in {[NoMain EXCEPT !.flagLogScale = l, !.flagTransform = t] :
                    l \in OptionLists(LogScaleOpts), t \in OptionLists(TransformNames)}

\* a call main made: NewPlot, Add, the i-th listed transform or Gnuplot,
\* and how it returned
Call(op, i, e, f) == [op |-> op, i |-> i, err |-> e, fault |-> f]

\* Parse log-scale option.
ParseLogScale ==
    /\ pc = "log-scale"
    /\ LET r == parseLogScale(main.flagLogScale, 1, main.logScale)
       IN  /\ main' = [main EXCEPT !.logScale = r.logScale]
           /\ err' = r.err
           /\ pc' = IF r.err = "" THEN "transform" ELSE "failed"
    /\ UNCHANGED <<config, plot, points, fault, last, prev, heap>>

\* Parse transforms.
ParseTransforms ==
    /\ pc = "transform"
    /\ LET r == parseTransforms(main.flagTransform, 1, <<>>)
       IN  /\ main' = [main EXCEPT !.transforms = r.transforms]
           /\ err' = r.err
           /\ pc' = IF r.err = "" THEN "new-plot" ELSE "failed"
    /\ UNCHANGED <<config, plot, points, fault, last, prev, heap>>

\* pl, err := plot.NewPlot(config)
MainNewPlot ==
    /\ pc = "new-plot"
    /\ LET r == NewPlotOf(config)
       IN  /\ plot' = r.plot
           /\ err' = r.err
           /\ pc' = IF r.err = "" THEN "reading" ELSE "failed"
           /\ main' = [main EXCEPT !.calls = Append(@, Call("NewPlot", 0, r.err, ""))]
    /\ last' = [NoLast EXCEPT !.op = "NewPlot"]
    /\ UNCHANGED <<config, points, fault, prev, heap>>

\* files.Scan() gives the record rec: pl.Add(rec)
ScanAdd(rec) ==
    /\ pc = "reading"
    /\ LET new == AddOf(plot, rec)
       IN  /\ Len(points) + Len(new) <= MaxPointsM
           /\ points' = points \o new
    /\ main' = [main EXCEPT !.nParsed = @ + 1,
                            !.calls = Append(@, Call("Add", 0, "", ""))]
    /\ last' = [NoLast EXCEPT !.op = "Add", !.rec = rec, !.n = Len(points)]
    /\ UNCHANGED <<config, plot, err, fault, pc, prev, heap>>

\* files.Scan() returns false: no data is an error
EndOfInput ==
    /\ pc = "reading"
    /\ err' = IF main.nParsed = 0 THEN "no data" ELSE ""
    /\ pc' = IF main.nParsed = 0 THEN "failed" ELSE "apply"
    /\ UNCHANGED <<config, plot, points, fault, last, prev, heap, main>>

\* Apply transforms: one turn of the loop, heap transforms having run; the
\* transform of transformOpts is Plot.TransformCompare
ApplyTransform ==
    /\ pc = "apply"
    /\ transformsLeft(main.transforms, heap)
    /\ main.transforms[heap + 1] = "compare"
    /\ \E sorted \in SortOutcomes(points, AesColor, 1 .. Len(points)) :
          LET r == transformCompare(points, AesColor, plot.dvAes, sorted)
          IN  /\ points' = IF r.err = "" /\ r.fault = "" THEN r.out ELSE r.pts
              /\ err' = r.err
              /\ fault' = r.fault
              /\ pc' = IF r.fault # "" THEN "aborted"
                       ELSE IF r.err # "" THEN "failed" ELSE "apply"
              /\ last' = [NoLast EXCEPT !.op = "Compare", !.aes = AesColor,
                                        !.n = Len(points), !.base = r.base]
              /\ main' = [main EXCEPT
                             !.calls = Append(@, Call("transform", heap + 1, r.err, r.fault))]
    /\ heap' = heap + 1
    /\ prev' = points
    /\ UNCHANGED <<config, plot>>

\* os.Create("benchplot.png") fails
CreateFails ==
    /\ pc = "apply"
    /\ ~transformsLeft(main.transforms, heap)
    /\ err' = "create benchplot.png"
    /\ pc' = "failed"
    /\ UNCHANGED <<config, plot, points, fault, last, prev, heap, main>>

\* pl.Gnuplot("png", f) on the created file: plot writes the script, and the
\* gnuplot process it is piped to writes the file (started) or fails
MainGnuplot ==
    /\ pc = "apply"
    /\ ~transformsLeft(main.transforms, heap)
    /\ \E c \in renderChoices(points), started \in BOOLEAN :
          LET r == gnuplotterPlot(plot, points, "png", c.rows, c.cols, c.colors, c.sorted)
              e == IF r.err # "" \/ r.fault # "" \/ started THEN r.err ELSE "gnuplot failed"
          IN  /\ points' = r.pts
              /\ err' = e
              /\ fault' = r.fault
              /\ pc' = IF r.fault # "" THEN "aborted"
                       ELSE IF e # "" THEN "failed" ELSE "done"
              /\ main' = [main EXCEPT
                             !.calls = Append(@, Call("Gnuplot", 0, e, r.fault)),
                             !.out = IF e = "" /\ r.fault = "" THEN r.code ELSE <<>>]
    /\ last' = [NoLast EXCEPT !.op = "Gnuplot", !.n = 1]
    /\ prev' = points
    /\ UNCHANGED <<config, plot, heap>>

NextM ==
    \/ ParseLogScale
    \/ ParseTransforms
    \/ MainNewPlot
    \/ \E rec \in RecordsT : ScanAdd(rec)
    \/ EndOfInput
    \/ ApplyTransform
    \/ CreateFails
    \/ MainGnuplot

SpecM == InitM /\ [][NextM]_vars

\* the -log-scale list names an aesthetic that does not exist
UnknownLogScale ==
    \E i \in DOMAIN main.flagLogScale : ~AesFromName(main.flagLogScale[i].name).ok

\* the -log-scale list holds a base that is not an integer
BadBase ==
    \E i \in DOMAIN main.flagLogScale :
        main.flagLogScale[i].hasBase /\ ~ParseInt(main.flagLogScale[i].baseStr).ok

\* the -transform list names a transform that does not exist
UnknownTransform ==
    \E i \in DOMAIN main.flagTransform : main.flagTransform[i] \notin transformOpts

\* C22: when the -log-scale list names an unknown aesthetic or the
\* -transform list names an unknown transform, the run ends with a
\* configuration error (of the unknown name, unless a bad base or another
\* unknown name precedes it) and no Plot is ever constructed, no record
\* added, no transform applied and nothing rendered.
C22_UnknownNameIsConfigError ==
    (UnknownLogScale \/ UnknownTransform) =>
        /\ plot = NoPlot
        /\ points = <<>>
        /\ main.calls = <<>>
        /\ pc \in {"log-scale", "transform", "failed"}
        /\ pc = "failed" =>
              /\ err \in {"unknown option in -log-scale", "bad base in -log-scale",
                          "unknown transform"}
              /\ (UnknownLogScale /\ ~BadBase) => err = "unknown option in -log-scale"
              /\ (~UnknownLogScale /\ ~BadBase) => err = "unknown transform"

\* the log scale of Y was set to base 2 and then the run ended on an unknown
\* transform name
C22_Witness ==
    /\ pc = "failed"
    /\ err = "unknown transform"
    /\ main.logScale[AesY] = 2
    /\ UnknownTransform
    /\ plot = NoPlot

\* the positions of the calls of main with the operation op
CallsOf(op) == {i \in DOMAIN main.calls : main.calls[i].op = op}

\* C21: in the calls main makes, no Add follows a transform; the k-th
\* transform called is the k-th listed one; Gnuplot is called only after
\* every listed transform was called and every call before it returned
\* without an error; and a transform that fails is the last call of the run,
\* which ends with the transform's error.
C21_PipelineOrdered ==
    /\ \A i \in CallsOf("transform"), j \in CallsOf("Add") \cup CallsOf("NewPlot") : j < i
    /\ \A i \in CallsOf("transform") :
          /\ main.calls[i].i = Cardinality({j \in CallsOf("transform") : j <= i})
          /\ main.calls[i].i <= Len(main.transforms)
          /\ (main.calls[i].err # "" \/ main.calls[i].fault # "") =>
                /\ i = Len(main.calls)
                /\ pc \in {"failed", "aborted"}
                /\ err = main.calls[i].err
                /\ fault = main.calls[i].fault
    /\ \A i \in CallsOf("Gnuplot") :
          /\ i = Len(main.calls)
          /\ Cardinality(CallsOf("transform")) = Len(main.transforms)
          /\ \A j \in 1 .. (i - 1) : main.calls[j].err = "" /\ main.calls[j].fault = ""

\* Gnuplot was called after two listed transforms, which ran on the points
\* of three Adds
C21_Witness ==
    /\ CallsOf("Gnuplot") # {}
    /\ Cardinality(CallsOf("transform")) = 2
    /\ Cardinality(CallsOf("Add")) = 3

====
